---------------------------- MODULE Spec2Model ----------------------------
(***************************************************************************)
(* PWB-AI-Agent: the agent orchestration pipeline of agents/graph.py       *)
(* (Router, Retriever, Compose, Critic, Action over one AgentState) and    *)
(* the pure functions it is built from.                                    *)
(*                                                                         *)
(* Text is modelled as a sequence of characters, each character a          *)
(* one-character string, so that substring tests and the two regular       *)
(* expressions of the action extractor are computed position by position   *)
(* the way Python's str and re do.                                         *)
(***************************************************************************)
EXTENDS Naturals, Sequences, FiniteSets, TLC

VARIABLES
    pc,      \* where the run of graph.invoke is: the node to execute next
    state,   \* the AgentState dict threaded through the nodes
    args,    \* the arguments invoke_graph was called with
    trace,   \* history: the nodes executed so far in the current run
    runs,    \* two calls of invoke_graph in one process: each call's locals
    lists,   \* the list objects those calls have created, by reference
    handles, \* the module globals _embedder and _collection
    threads, \* the threads that call get_embedder and get_collection
    synth,   \* one call of the Answer Synthesizer, plain or streaming
    ui,      \* one session of the Streamlit app: st.session_state and what it shows
    ops,     \* the ops stub API: its two files and the requests being handled
    split    \* one call of split_text: its locals

\* the variables of two calls of invoke_graph
runvars == <<runs, lists>>

\* the variables of the shared handles and their callers
handlevars == <<handles, threads>>

\* the variables of one call of invoke_graph
corevars == <<pc, state, args, trace>>

\* the variables of the programs around the pipeline
appvars == <<synth, ui, ops, split>>

vars == <<pc, state, args, trace, runs, lists, handles, threads, synth, ui, ops, split>>

-----------------------------------------------------------------------------
(* Characters and str methods                                              *)

UpperLetters ==
    <<"A","B","C","D","E","F","G","H","I","J","K","L","M",
      "N","O","P","Q","R","S","T","U","V","W","X","Y","Z">>

LowerLetters ==
    <<"a","b","c","d","e","f","g","h","i","j","k","l","m",
      "n","o","p","q","r","s","t","u","v","w","x","y","z">>

DigitChars == {"0","1","2","3","4","5","6","7","8","9"}

Range(s) == {s[i] : i \in DOMAIN s}

Min(S) == CHOOSE x \in S : \A y \in S : x <= y

Max(S) == CHOOSE x \in S : \A y \in S : x >= y

\* str.lower() on one character
Lower(c) ==
    IF \E i \in DOMAIN UpperLetters : UpperLetters[i] = c
    THEN LowerLetters[CHOOSE i \in DOMAIN UpperLetters : UpperLetters[i] = c]
    ELSE c

\* str.lower()
str_lower(s) == [i \in 1..Len(s) |-> Lower(s[i])]

\* the regex class \s
IsSpace(c) == c \in {" ", "\t", "\n"}

\* the characters of the regex class \w
WordChars == Range(UpperLetters) \cup Range(LowerLetters) \cup DigitChars \cup {"_"}

\* the regex class \w
IsWord(c) == c \in WordChars

\* the characters excluded by the class [^'"]
IsQuote(c) == c \in {"'", "\""}

\* Python's `k in q` on strings: k occurs in q as a contiguous substring
str_contains(q, k) ==
    \E i \in 1..(Len(q) + 1) :
        /\ i + Len(k) - 1 <= Len(q)
        /\ \A j \in 1..Len(k) : q[i + j - 1] = k[j]

\* whether pattern word w (lower case) matches q at position i under re.IGNORECASE
MatchesAt(q, i, w) ==
    /\ i >= 1
    /\ i + Len(w) - 1 <= Len(q)
    /\ \A j \in 1..Len(w) : Lower(q[i + j - 1]) = w[j]

\* s[a..b], empty when a = 0
Slice(s, a, b) == IF a = 0 THEN <<>> ELSE SubSeq(s, a, b)

\* str.strip(): leading and trailing whitespace removed
str_strip(s) ==
    Slice(s, IF \A i \in 1..Len(s) : IsSpace(s[i]) THEN 0
             ELSE Min({i \in 1..Len(s) : ~IsSpace(s[i])}),
          IF \A i \in 1..Len(s) : IsSpace(s[i]) THEN 0
             ELSE Max({i \in 1..Len(s) : ~IsSpace(s[i])}))

\* str(bool) as an f-string formats it
PyStr(b) == IF b THEN "True" ELSE "False"

\* str.title() on the two intents
Title(s) == IF s = "action" THEN "Action" ELSE IF s = "knowledge" THEN "Knowledge" ELSE s

-----------------------------------------------------------------------------
(* dict                                                                    *)

EmptyDict == [k \in {} |-> 0]

\* d[k] = v
Put(d, k, v) == [x \in (DOMAIN d) \cup {k} |-> IF x = k THEN v ELSE d[x]]

\* d.get(k, default)
Get(d, k, default) == IF k \in DOMAIN d THEN d[k] ELSE default

Has(d, k) == k \in DOMAIN d


-----------------------------------------------------------------------------
(* Router                                                                  *)

kw_pause == <<"p","a","u","s","e">>

kw_unpause == <<"u","n","p","a","u","s","e">>

kw_resume == <<"r","e","s","u","m","e">>

kw_update == <<"u","p","d","a","t","e">>

kw_set == <<"s","e","t">>

kw_change == <<"c","h","a","n","g","e">>

kw_opening == <<"o","p","e","n","i","n","g">>

kw_hours == <<"h","o","u","r","s">>

\* the list action_keywords of router_node
action_keywords ==
    << kw_pause, kw_unpause, kw_resume,
       <<"u","p","d","a","t","e"," ","h","o","u","r","s">>,
       <<"c","h","a","n","g","e"," ","h","o","u","r","s">>,
       <<"s","e","t"," ","h","o","u","r","s">> >>

\* a faulty variant of route: the query is not lower-cased before the test
route_NoLower(query) ==
    IF \E n \in DOMAIN action_keywords : str_contains(query, action_keywords[n])
    THEN "action"
    ELSE "knowledge"

\* the intent router_node computes for a query: any(k in q.lower() for k in action_keywords)
route(query) ==
    IF \E n \in DOMAIN action_keywords : str_contains(str_lower(query), action_keywords[n])
    THEN "action"
    ELSE "knowledge"

\* a faulty variant of RouterResult: intent is computed and logged but never
\* stored in the state
RouterResult_NoIntent(st, intent) ==
    Put(st, "log", Append(Get(st, "log", <<>>), <<"Router → ", Title(intent)>>))

\* a faulty variant of RouterResult: the lower-cased query is stored back
RouterResult_LowerQuery(st, intent) ==
    Put(Put(Put(st, "query", str_lower(Get(st, "query", <<>>))), "intent", intent),
        "log", Append(Get(st, "log", <<>>), <<"Router → ", Title(intent)>>))

\* the writes of router_node once intent is computed
RouterResult(st, intent) ==
    Put(Put(st, "intent", intent),
        "log", Append(Get(st, "log", <<>>), <<"Router → ", Title(intent)>>))

\* the state router_node returns
router_node(st) == RouterResult(st, route(Get(st, "query", <<>>)))

-----------------------------------------------------------------------------
(* Critic                                                                  *)

\* a faulty variant of check_grounded: any bracketed token counts
check_grounded_AnyBracket(answer) ==
    \E i \in {x \in 1..Len(answer) : answer[x] = "["} :
        \E e \in {x \in (i + 2)..Len(answer) : answer[x] = "]"} :
            \A k \in (i + 1)..(e - 1) : answer[k] # "]"

\* re.search(r"\[[^\]]+ p\d+\]", answer): "[", one or more characters other
\* than "]", " p", one or more digits, "]"
check_grounded(answer) ==
    \E i \in {x \in 1..Len(answer) : answer[x] = "["} :
        \E j \in {x \in (i + 2)..(Len(answer) - 1) :
                      answer[x] = " " /\ answer[x + 1] = "p"} :
            /\ \A k \in (i + 1)..(j - 1) : answer[k] # "]"
            /\ \E e \in {x \in (j + 3)..Len(answer) : answer[x] = "]"} :
                   \A k \in (j + 2)..(e - 1) : answer[k] \in DigitChars

\* a faulty variant of critic_node: the trace line goes into a new list
critic_node_FreshLog(st) ==
    Put(st, "log",
        <<<<"Critic → END (grounded=", PyStr(check_grounded(Get(st, "answer", <<>>))), ")">>>>)

\* the state critic_node returns
critic_node(st) ==
    Put(st, "log",
        Append(Get(st, "log", <<>>),
               <<"Critic → END (grounded=", PyStr(check_grounded(Get(st, "answer", <<>>))), ")">>))

-----------------------------------------------------------------------------
(* Action extraction: the two compiled patterns and action_node            *)

\* number of consecutive whitespace characters of q from position j on
SpaceRun(q, j) ==
    Min({k \in j..(Len(q) + 1) : k = Len(q) + 1 \/ ~IsSpace(q[k])}) - j

\* number of consecutive characters of the class [^'"] from position s on
NonQuoteRun(q, s) ==
    Min({k \in s..(Len(q) + 1) : k = Len(q) + 1 \/ IsQuote(q[k])}) - s

\* the first position from h on that holds a newline, or the end of q: where
\* (.*) stops
LineEnd(q, h) ==
    Min({k \in h..(Len(q) + 1) : k = Len(q) + 1 \/ q[k] = "\n"})

\* the least element of a set of positions, 0 for the empty set
LeftMost(S) == IF S = {} THEN 0 ELSE Min(S)

\* the greatest element of a set of positions, 0 for the empty set
RightMost(S) == IF S = {} THEN 0 ELSE Max(S)

\* the assertion \b holds between q[t-1] and q[t]
IsBoundary(q, t) ==
    (t > 1 /\ t - 1 <= Len(q) /\ IsWord(q[t - 1])) # (t >= 1 /\ t <= Len(q) /\ IsWord(q[t]))

\* the tail '?"?\b of action_item_re matches at position e
CloseOK(q, e) ==
    \E c1 \in {0, 1}, c2 \in {0, 1} :
        /\ c1 = 1 => (e <= Len(q) /\ q[e] = "'")
        /\ c2 = 1 => (e + c1 <= Len(q) /\ q[e + c1] = "\"")
        /\ IsBoundary(q, e + c1 + c2)

\* '?"? at position k: where the group starts when the opening quotes are
\* matched the o-th way the engine tries them (1: both, 2: ' alone,
\* 3: " alone, 4: neither), 0 when q does not allow that way
OpenStart(q, k, o) ==
    CASE o = 1 -> IF k + 1 <= Len(q) /\ q[k] = "'" /\ q[k + 1] = "\"" THEN k + 2 ELSE 0
      [] o = 2 -> IF k <= Len(q) /\ q[k] = "'" THEN k + 1 ELSE 0
      [] o = 3 -> IF k <= Len(q) /\ q[k] = "\"" THEN k + 1 ELSE 0
      [] OTHER -> k

\* ([^'"]+?)'?"?\b with the group on q[s..e-1]
GroupOK(q, s, e) ==
    /\ s > 0
    /\ e > s
    /\ e - s <= NonQuoteRun(q, s)
    /\ CloseOK(q, e)

\* the ways \s+'?"?([^'"]+?)'?"?\b matches from position j: <<n, o, e>> for n
\* whitespace characters, the opening quotes matched the o-th way and the
\* group ending before e
ItemCandidates(q, j) ==
    {c \in (1..SpaceRun(q, j)) \X (1..4) \X ((j + 2)..(Len(q) + 1)) :
        GroupOK(q, OpenStart(q, j + c[1], c[2]), c[3])}

\* the backtracking order: \s+ is greedy (more whitespace first), '?"? are
\* greedy (o ascending), the group is lazy (shorter first)
TriedBefore(c, d) ==
    \/ c[1] > d[1]
    \/ c[1] = d[1] /\ c[2] < d[2]
    \/ c[1] = d[1] /\ c[2] = d[2] /\ c[3] <= d[3]

\* the match object of action_item_re for the verb on q[i..j-1] and the way c
ItemGroups(q, i, j, c) ==
    [matched |-> TRUE,
     group1 |-> SubSeq(q, i, j - 1),
     group2 |-> SubSeq(q, OpenStart(q, j + c[1], c[2]), c[3] - 1)]

NoItemMatch == [matched |-> FALSE, group1 |-> <<>>, group2 |-> <<>>]

\* the first of the ways C in the backtracking order
ItemMatch(q, i, j, C) ==
    IF C = {} THEN NoItemMatch
    ELSE ItemGroups(q, i, j, CHOOSE c \in C : \A d \in C : TriedBefore(c, d))

\* the alternative of (pause|unpause|resume) that matches at i, <<>> if none
ItemVerbAt(q, i) ==
    IF MatchesAt(q, i, kw_pause) THEN kw_pause
    ELSE IF MatchesAt(q, i, kw_unpause) THEN kw_unpause
    ELSE IF MatchesAt(q, i, kw_resume) THEN kw_resume
    ELSE <<>>

\* action_item_re with its verb on q[i..j-1]; j = i when no verb matches at i
MatchItemFrom(q, i, j) ==
    IF j = i THEN NoItemMatch ELSE ItemMatch(q, i, j, ItemCandidates(q, j))

\* action_item_re matched at position i
MatchItemAt(q, i) == MatchItemFrom(q, i, i + Len(ItemVerbAt(q, i)))

\* action_item_re.search(q): the match at the leftmost position that has one
action_item_re(q) ==
    MatchItemAt(q, LeftMost({i \in 1..Len(q) : MatchItemAt(q, i).matched}))

\* the alternative of (update|set|change) that matches at i, <<>> if none
HoursVerbAt(q, i) ==
    IF MatchesAt(q, i, kw_update) THEN kw_update
    ELSE IF MatchesAt(q, i, kw_set) THEN kw_set
    ELSE IF MatchesAt(q, i, kw_change) THEN kw_change
    ELSE <<>>

\* (opening\s+)?hours matched at position k: the position after "hours",
\* 0 when it does not match
HoursWordEnd(q, k) ==
    IF MatchesAt(q, k, kw_hours) THEN k + Len(kw_hours)
    ELSE IF MatchesAt(q, k, kw_opening)
    THEN RightMost({k + Len(kw_opening) + m + Len(kw_hours) :
                        m \in {x \in 1..SpaceRun(q, k + Len(kw_opening)) :
                                 MatchesAt(q, k + Len(kw_opening) + x, kw_hours)}})
    ELSE 0

NoHoursMatch == [matched |-> FALSE, group0 |-> <<>>]

\* a faulty variant of HoursMatch: group(0) starts at the beginning of q
HoursMatch_WholeQuery(q, i, h) ==
    IF h = 0 THEN NoHoursMatch
    ELSE [matched |-> TRUE, group0 |-> SubSeq(q, 1, LineEnd(q, h) - 1)]

\* the match object of action_hours_re starting at i with "hours" ending
\* before h: (.*) runs from h to the end of that line, and group(0) is the
\* text from i to there
HoursMatch(q, i, h) ==
    IF h = 0 THEN NoHoursMatch
    ELSE [matched |-> TRUE, group0 |-> SubSeq(q, i, LineEnd(q, h) - 1)]

\* action_hours_re with its verb on q[i..j-1]; j = i when no verb matches at i
MatchHoursFrom(q, i, j) ==
    IF j = i THEN NoHoursMatch
    ELSE HoursMatch(q, i, RightMost({HoursWordEnd(q, j + n) : n \in 1..SpaceRun(q, j)}))

\* action_hours_re matched at position i
MatchHoursAt(q, i) == MatchHoursFrom(q, i, i + Len(HoursVerbAt(q, i)))

\* action_hours_re.search(q)
action_hours_re(q) ==
    MatchHoursAt(q, LeftMost({i \in 1..Len(q) : MatchHoursAt(q, i).matched}))

\* a faulty variant of ItemType: only the verb unpause gives unpause_item
ItemType_ResumePauses(verb) == IF verb = kw_unpause THEN "unpause_item" ELSE "pause_item"

\* the type action_node gives a proposal whose item pattern matched on verb
ItemType(verb) == IF verb = kw_pause THEN "pause_item" ELSE "unpause_item"

\* a faulty variant of BaseProposal: the lower-cased query is recorded
BaseProposal_LowerQuery(q) ==
    Put(Put(EmptyDict, "type", "unknown"), "original_query", str_lower(q))

\* proposed = {"type": "unknown", "original_query": q}
BaseProposal(q) == Put(Put(EmptyDict, "type", "unknown"), "original_query", q)

\* a faulty variant of Propose: the hours pattern is consulted first
Propose_HoursFirst(q, m_item, m_hours) ==
    IF m_hours.matched
    THEN Put(Put(BaseProposal(q), "type", "update_hours"),
             "details", str_strip(m_hours.group0))
    ELSE IF m_item.matched
    THEN Put(Put(BaseProposal(q), "type", ItemType(str_lower(m_item.group1))),
             "item", str_strip(m_item.group2))
    ELSE BaseProposal(q)

\* the branches of action_node on the two match objects
Propose(q, m_item, m_hours) ==
    IF m_item.matched
    THEN Put(Put(BaseProposal(q), "type", ItemType(str_lower(m_item.group1))),
             "item", str_strip(m_item.group2))
    ELSE IF m_hours.matched
    THEN Put(Put(BaseProposal(q), "type", "update_hours"),
             "details", str_strip(m_hours.group0))
    ELSE BaseProposal(q)

\* the dict `proposed` that action_node builds for a query
extract_action(q) == Propose(q, action_item_re(q), action_hours_re(q))

\* a faulty variant of ActionResult: the confirmation answer is not written
ActionResult_NoAnswer(st, proposed) ==
    Put(Put(st, "proposed_action", proposed),
        "log", Append(Get(st, "log", <<>>),
                      <<"Action → END (proposed=", proposed["type"], ")">>))

\* a faulty variant of ActionResult: an unknown proposal gets an answer and a
\* trace line of its own
ActionResult_UnknownApart(st, proposed) ==
    IF proposed["type"] = "unknown"
    THEN Put(Put(Put(st, "proposed_action", proposed),
                 "answer", <<"I could not identify an action request.">>),
             "log", Append(Get(st, "log", <<>>), <<"Action → END (no proposal)">>))
    ELSE Put(Put(Put(st, "proposed_action", proposed),
                 "answer", <<"I identified an action request: ", proposed["type"],
                             ". Review the proposed parameters below and approve to execute.">>),
             "log", Append(Get(st, "log", <<>>),
                           <<"Action → END (proposed=", proposed["type"], ")">>))

\* the writes of action_node once `proposed` is built
ActionResult(st, proposed) ==
    Put(Put(Put(st, "proposed_action", proposed),
            "answer", <<"I identified an action request: ", proposed["type"],
                        ". Review the proposed parameters below and approve to execute.">>),
        "log", Append(Get(st, "log", <<>>),
                      <<"Action → END (proposed=", proposed["type"], ")">>))

\* the state action_node returns
action_node(st) == ActionResult(st, extract_action(Get(st, "query", <<>>)))

-----------------------------------------------------------------------------
(* Inputs                                                                  *)

\* the longest query given to the two query-processing nodes alone, in
\* words of Vocabulary
MaxTokens == 3

\* the longest query given to the whole pipeline, in words of Vocabulary
MaxPipelineTokens == 2

\* the most passages the vector index holds for any query
MaxHits == 2

\* top_k: int = 4 in invoke_graph's signature
DefaultTopK == 4

\* temperature: float = 0.2 in invoke_graph's signature, in tenths
DefaultTemperature == 2

\* Python's None
None == "<None>"

\* the pieces queries are put together from
Vocabulary ==
    { kw_pause \o <<" ">>, <<"P","A","U","S","E"," ">>,
      <<"R","e","s","u","m","e"," ">>, <<"u","n">>,
      kw_update \o <<" ">>, <<"S","E","T"," ">>, kw_opening \o <<" ">>, kw_hours,
      <<" ">>, <<"'">>, <<"\"">>, <<"G","a","r","l","i","c">>, <<"-">>, <<"\n">> }

\* the queries spec section 8 gives as examples
ExampleQueries ==
    { <<"p","a","u","s","e"," ","'","G","a","r","l","i","c"," ","B","r","e","a","d","'">>,
      <<"r","e","s","u","m","e"," ","C","h","e","e","s","e","c","a","k","e">>,
      <<"p","l","e","a","s","e"," ","u","p","d","a","t","e"," ","o","p","e","n","i","n","g"," ","h","o","u","r","s"," ","f","o","r"," ","F","r","i","d","a","y"," ","t","o"," ","9","-","5">>,
      <<"w","h","a","t"," ","i","s"," ","t","h","e"," ","w","e","a","t","h","e","r">>,
      <<"p","a","u","s","e"," ","t","h","e"," ","g","a","r","l","i","c"," ","b","r","e","a","d">> }

RECURSIVE Concat(_)
\* the pieces of a sequence of words joined into one text
Concat(ws) == IF ws = <<>> THEN <<>> ELSE Head(ws) \o Concat(Tail(ws))

\* every text of at most n words
Texts(n) == UNION {{Concat(ws) : ws \in [1..m -> Vocabulary]} : m \in 0..n}

\* the queries given to invoke_graph
Queries == ExampleQueries \cup Texts(MaxPipelineTokens)

\* the queries given to the router and action nodes alone
NodeQueries == ExampleQueries \cup Texts(MaxTokens)

\* the values of top_k a caller passes
TopKs == {1, DefaultTopK}

\* the values of style a caller passes
Styles == {None, "concise"}

\* the values of temperature a caller passes, in tenths
Temperatures == {DefaultTemperature}

\* the i-th passage the vector index returns: document, metadata, distance
Hit(i) ==
    [document |-> <<"chunk", i>>,
     metadata |-> [source |-> "data/raw/Finance_Guide.pdf", filename |-> "Finance_Guide.pdf",
                   page |-> i, chunk |-> 0, title |-> "Finance Guide"],
     distance |-> i]

\* the fixed answer of answer_with_citations when no backend is configured
LLMDisabled ==
    <<"[","L","L","M"," ","d","i","s","a","b","l","e","d","]"," ","P","r",
      "o","v","i","d","e"," ","G","R","O","Q","_","A","P","I","_","K","E",
      "Y"," ","i","n"," ",".","e","n","v","."," ","P","r","o","c","e","e",
      "d"," ","w","i","t","h"," ","r","e","t","r","i","e","v","e","d"," ",
      "s","o","u","r","c","e","s"," ","b","e","l","o","w",".">>

\* the answer of answer_with_citations when the backend call raises
LLMError ==
    <<"[","L","L","M"," ","e","r","r","o","r","]"," ","t","i","m","e","o",
      "u","t","."," ","P","r","o","c","e","e","d"," ","w","i","t","h"," ",
      "r","e","t","r","i","e","v","e","d"," ","s","o","u","r","c","e","s",
      " ","b","e","l","o","w",".">>

\* answers a configured backend returns, stripped
BackendAnswers ==
    { <<"S","e","e"," ","[","F","i","n","a","n","c","e","_","G","u","i","d","e"," ","p","3","]"," ","f","o","r"," ","d","e","t","a","i","l","s",".">>,
      <<"N","o"," ","c","i","t","a","t","i","o","n"," ","h","e","r","e",".">>,
      <<>> }

\* what answer_with_citations can return to compose_node
SynthesizerAnswers == {LLMDisabled, LLMError} \cup BackendAnswers

\* the longest answer given to the critic node alone, in pieces of
\* AnswerVocabulary
MaxAnswerTokens == 5

\* the pieces answers are put together from
AnswerVocabulary == { <<"[">>, <<"]">>, <<"x">>, <<" ","p">>, <<"3">>, <<" ">> }

\* every text of at most n pieces
AnswerTexts(n) == UNION {{Concat(ws) : ws \in [1..m -> AnswerVocabulary]} : m \in 0..n}

\* the answers given to the critic node alone: a backend's text comes back
\* through .strip()
CriticAnswers == SynthesizerAnswers \cup {str_strip(t) : t \in AnswerTexts(MaxAnswerTokens)}

-----------------------------------------------------------------------------
(* The compiled graph and invoke_graph                                     *)

\* route_selector of get_graph: state.get("intent", "knowledge")
route_selector(st) == Get(st, "intent", "knowledge")

\* a faulty variant of ConditionalEdges: the two targets exchanged
ConditionalEdges_Swapped == [knowledge |-> "action", action |-> "retriever"]

\* the mapping of add_conditional_edges("router", route_selector, ...)
ConditionalEdges == [knowledge |-> "retriever", action |-> "action"]

\* a faulty variant of Edges: the action node wired to the critic
Edges_ActionToCritic ==
    [retriever |-> "compose", compose |-> "critic", critic |-> "END", action |-> "critic"]

\* a faulty variant of Edges: the critic sends the run back to compose
Edges_CriticRetries ==
    [retriever |-> "compose", compose |-> "critic", critic |-> "compose", action |-> "END"]

\* the edges add_edge gives retriever, compose, critic and action
Edges == [retriever |-> "compose", compose |-> "critic", critic |-> "END", action |-> "END"]

\* the dict init of invoke_graph
InitState(query, top_k, style, temperature) ==
    LET init == Put(Put(Put(EmptyDict, "query", query), "top_k", top_k), "log", <<>>)
        styled == IF style # None /\ style # "" THEN Put(init, "style", style) ELSE init
    IN  Put(styled, "temperature", temperature)

\* the writes of retriever_node once the passages are zipped into contexts
RetrieverResult(st, contexts) ==
    Put(Put(st, "contexts", contexts),
        "log", Append(Get(st, "log", <<>>), <<"Retriever → Compose">>))

\* a faulty variant of ComposeResult: without passages no answer is written
ComposeResult_NeedsContexts(st, answer) ==
    IF Get(st, "contexts", <<>>) = <<>>
    THEN Put(st, "log", Append(Get(st, "log", <<>>), <<"Compose → Critic">>))
    ELSE Put(Put(st, "answer", answer),
             "log", Append(Get(st, "log", <<>>), <<"Compose → Critic">>))

\* the writes of compose_node once answer_with_citations has returned
ComposeResult(st, answer) ==
    Put(Put(st, "answer", answer),
        "log", Append(Get(st, "log", <<>>), <<"Compose → Critic">>))

\* a specification of one call of invoke_graph leaves the variables of the
\* concurrent specifications empty
OneCallOnly ==
    /\ runs = <<>>
    /\ lists = <<>>
    /\ handles = <<>>
    /\ threads = <<>>
    /\ synth = <<>>
    /\ ui = <<>>
    /\ ops = <<>>
    /\ split = <<>>

Init ==
    /\ pc = "idle"
    /\ state = EmptyDict
    /\ args = EmptyDict
    /\ trace = <<>>
    /\ OneCallOnly

\* invoke_graph(query, top_k, style, temperature) up to graph.invoke(init):
\* START -> router
Invoke ==
    /\ pc = "idle"
    /\ \E query \in Queries, top_k \in TopKs, style \in Styles, temperature \in Temperatures :
        /\ args' = [query |-> query, top_k |-> top_k, style |-> style,
                    temperature |-> temperature]
        /\ state' = InitState(query, top_k, style, temperature)
    /\ pc' = "router"
    /\ trace' = <<>>
    /\ UNCHANGED <<runvars, handlevars, appvars>>

\* the router node and the conditional edge out of it
Router ==
    /\ pc = "router"
    /\ state' = router_node(state)
    /\ pc' = ConditionalEdges[route_selector(state')]
    /\ trace' = Append(trace, "router")
    /\ UNCHANGED <<args, runvars, handlevars, appvars>>

\* retriever_node: the embedding model and the vector index are external; a
\* call into them returns at most top_k passages or raises, and an exception
\* leaves retriever_node (it has no handler) and graph.invoke
Retriever ==
    /\ pc = "retriever"
    /\ trace' = Append(trace, "retriever")
    /\ UNCHANGED <<args, runvars, handlevars, appvars>>
    /\ \/ \E n \in 0..Min({Get(state, "top_k", DefaultTopK), MaxHits}) :
            /\ state' = RetrieverResult(state, [i \in 1..n |-> Hit(i)])
            /\ pc' = Edges["retriever"]
       \/ /\ pc' = "FAILED"
          /\ UNCHANGED state

\* compose_node
Compose ==
    /\ pc = "compose"
    /\ \E answer \in SynthesizerAnswers : state' = ComposeResult(state, answer)
    /\ pc' = Edges["compose"]
    /\ trace' = Append(trace, "compose")
    /\ UNCHANGED <<args, runvars, handlevars, appvars>>

\* the critic node
Critic ==
    /\ pc = "critic"
    /\ state' = critic_node(state)
    /\ pc' = Edges["critic"]
    /\ trace' = Append(trace, "critic")
    /\ UNCHANGED <<args, runvars, handlevars, appvars>>

\* the action node
Action ==
    /\ pc = "action"
    /\ state' = action_node(state)
    /\ pc' = Edges["action"]
    /\ trace' = Append(trace, "action")
    /\ UNCHANGED <<args, runvars, handlevars, appvars>>

\* invoke_graph returns the final state to its caller, or the exception
\* leaves it; its locals are gone and the next call starts afresh
Return ==
    /\ pc \in {"END", "FAILED"}
    /\ pc' = "idle"
    /\ state' = EmptyDict
    /\ args' = EmptyDict
    /\ trace' = <<>>
    /\ UNCHANGED <<runvars, handlevars, appvars>>

Next == Invoke \/ Router \/ Retriever \/ Compose \/ Critic \/ Action \/ Return

Spec == Init /\ [][Next]_vars

\* graph.invoke runs the nodes one after the other without pause: a node
\* that is due runs
FairSpec == Spec /\ WF_vars(Retriever) /\ WF_vars(Compose) /\ WF_vars(Critic)

\* The two nodes that only compute on the query, router and action, started
\* in the state invoke_graph hands to graph.invoke, over the larger
\* NodeQueries; a knowledge query stops at the edge into the retriever.
InitQuery ==
    \E query \in NodeQueries :
        /\ pc = "router"
        /\ args = [query |-> query, top_k |-> DefaultTopK, style |-> None,
                   temperature |-> DefaultTemperature]
        /\ state = InitState(query, DefaultTopK, None, DefaultTemperature)
        /\ trace = <<>>
        /\ OneCallOnly

NextQuery == Router \/ Action

SpecQuery == InitQuery /\ [][NextQuery]_vars

\* action_node called on its own with a state that holds only the query, as
\* extract_action(query): every text of NodeQueries, whatever the router
\* would make of it
InitExtract ==
    \E query \in NodeQueries :
        /\ pc = "action"
        /\ args = [query |-> query]
        /\ state = Put(EmptyDict, "query", query)
        /\ trace = <<>>
        /\ OneCallOnly

NextExtract == Action

SpecExtract == InitExtract /\ [][NextExtract]_vars

\* critic_node on its own, started in the state compose_node leaves for a
\* knowledge query without passages, over the larger CriticAnswers
InitCritic ==
    \E answer \in CriticAnswers :
        /\ pc = "critic"
        /\ args = [query |-> <<"h","o","u","r","s">>, top_k |-> DefaultTopK, style |-> None,
                   temperature |-> DefaultTemperature]
        /\ state = Put(Put(Put(router_node(InitState(<<"h","o","u","r","s">>, DefaultTopK, None,
                                                       DefaultTemperature)),
                               "contexts", <<>>),
                           "answer", answer),
                       "log", <<<<"Router → ", "Knowledge">>, <<"Retriever → Compose">>,
                                <<"Compose → Critic">>>>)
        /\ trace = <<"router", "retriever", "compose">>
        /\ OneCallOnly

NextCritic == Critic

SpecCritic == InitCritic /\ [][NextCritic]_vars

-----------------------------------------------------------------------------
(* Two calls of invoke_graph in one process                                *)

\* the two calls
RunIds == {1, 2}

\* the queries the two calls are given
RunQueries == ExampleQueries

\* the locals of a call that has not started
IdleRun == [pc |-> "idle", state |-> EmptyDict, args |-> EmptyDict, trace |-> <<>>, oracle |-> <<>>]

\* a faulty variant of AllocLog: one list object, created once, serves every
\* call
AllocLog_SharedDefault(heap) ==
    [ref |-> 1, heap |-> IF heap = <<>> THEN <<<<>>>> ELSE heap]

\* the list display [] in `init = {..., "log": []}`: a new list object on
\* every evaluation; a reference is the object's index in the heap
AllocLog(heap) == [ref |-> Len(heap) + 1, heap |-> Append(heap, <<>>)]

\* the dict a node of call r is handed, state["log"] read through its
\* reference
OwnState(rs, heap, r) == Put(rs[r].state, "log", heap[rs[r].state["log"]])

\* a faulty variant of RunStep: the dict the node returns becomes the state
\* of every call
RunStep_SharedState(rs, r, st, node, next, out) ==
    [x \in RunIds |->
        IF x = r
        THEN [pc |-> next, state |-> Put(st, "log", rs[r].state["log"]), args |-> rs[r].args,
              trace |-> Append(rs[r].trace, node), oracle |-> rs[r].oracle \o out]
        ELSE [rs[x] EXCEPT !.state = Put(st, "log", rs[r].state["log"])]]

\* call r after its node returned the dict st: the dict is r's state, the
\* list stays the object it was, the run moves on to next; out is what an
\* external collaborator answered in this step
RunStep(rs, r, st, node, next, out) ==
    [rs EXCEPT ![r] =
        [pc |-> next, state |-> Put(st, "log", rs[r].state["log"]), args |-> rs[r].args,
         trace |-> Append(rs[r].trace, node), oracle |-> rs[r].oracle \o out]]

\* log.append(...) on the list object of call r
ListsAfter(heap, rs, r, st) == [heap EXCEPT ![rs[r].state["log"]] = st["log"]]

InitRuns ==
    /\ pc = "idle"
    /\ state = EmptyDict
    /\ args = EmptyDict
    /\ trace = <<>>
    /\ runs = [r \in RunIds |-> IdleRun]
    /\ lists = <<>>
    /\ handles = <<>>
    /\ threads = <<>>
    /\ synth = <<>>
    /\ ui = <<>>
    /\ ops = <<>>
    /\ split = <<>>

\* call r of invoke_graph with the arguments a, its list object allocated
\* as al
RunStart(r, a, al) ==
    /\ runs' = [runs EXCEPT ![r] =
                  [pc |-> "router",
                   state |-> Put(InitState(a.query, a.top_k, a.style, a.temperature),
                                 "log", al.ref),
                   args |-> a, trace |-> <<>>, oracle |-> <<>>]]
    /\ lists' = al.heap
    /\ UNCHANGED <<pc, state, args, trace, handlevars, appvars>>

\* invoke_graph is called while the other call may be under way
RunInvoke(r) ==
    /\ runs[r].pc = "idle"
    /\ \E query \in RunQueries :
          RunStart(r, [query |-> query, top_k |-> DefaultTopK, style |-> None,
                       temperature |-> DefaultTemperature], AllocLog(lists))

\* invoke_graph is called when no other call is under way
RunInvokeAlone(r) ==
    /\ \A o \in RunIds \ {r} : runs[o].pc \in {"idle", "END", "FAILED"}
    /\ RunInvoke(r)

\* a node of call r returned the dict st
RunNode(r, st, node, next, out) ==
    /\ runs' = RunStep(runs, r, st, node, next, out)
    /\ lists' = ListsAfter(lists, runs, r, st)
    /\ UNCHANGED <<pc, state, args, trace, handlevars, appvars>>

RunRouter(r) ==
    /\ runs[r].pc = "router"
    /\ RunNode(r, router_node(OwnState(runs, lists, r)), "router",
               ConditionalEdges[route_selector(router_node(OwnState(runs, lists, r)))], <<>>)

RunRetriever(r) ==
    /\ runs[r].pc = "retriever"
    /\ \/ \E n \in 0..Min({Get(runs[r].state, "top_k", DefaultTopK), MaxHits}) :
            RunNode(r, Put(Put(OwnState(runs, lists, r), "contexts", [i \in 1..n |-> Hit(i)]),
                           "log", Append(OwnState(runs, lists, r)["log"],
                                         <<"Retriever → Compose">>)),
                    "retriever", Edges["retriever"], <<<<"hits", n>>>>)
       \/ /\ runs' = [runs EXCEPT ![r].pc = "FAILED",
                                   ![r].trace = Append(runs[r].trace, "retriever"),
                                   ![r].oracle = runs[r].oracle \o <<<<"raise">>>>]
          /\ UNCHANGED <<pc, state, args, trace, lists, handlevars, appvars>>

RunCompose(r) ==
    /\ runs[r].pc = "compose"
    /\ \E answer \in SynthesizerAnswers :
          RunNode(r, Put(Put(OwnState(runs, lists, r), "answer", answer),
                         "log", Append(OwnState(runs, lists, r)["log"], <<"Compose → Critic">>)),
                  "compose", Edges["compose"], <<<<"answer", answer>>>>)

RunCritic(r) ==
    /\ runs[r].pc = "critic"
    /\ RunNode(r, critic_node(OwnState(runs, lists, r)), "critic", Edges["critic"], <<>>)

RunAction(r) ==
    /\ runs[r].pc = "action"
    /\ RunNode(r, action_node(OwnState(runs, lists, r)), "action", Edges["action"], <<>>)

\* the two calls interleaved in any way
NextRuns ==
    \/ \E r \in RunIds : RunInvoke(r)
    \/ \E r \in RunIds : RunRouter(r)
    \/ \E r \in RunIds : RunRetriever(r)
    \/ \E r \in RunIds : RunCompose(r)
    \/ \E r \in RunIds : RunCritic(r)
    \/ \E r \in RunIds : RunAction(r)

SpecRuns == InitRuns /\ [][NextRuns]_vars

\* the two calls one after the other
NextTwice ==
    \/ \E r \in RunIds : RunInvokeAlone(r)
    \/ \E r \in RunIds : RunRouter(r)
    \/ \E r \in RunIds : RunRetriever(r)
    \/ \E r \in RunIds : RunCompose(r)
    \/ \E r \in RunIds : RunCritic(r)
    \/ \E r \in RunIds : RunAction(r)

SpecTwice == InitRuns /\ [][NextTwice]_vars

-----------------------------------------------------------------------------
(* The shared handles: get_embedder and get_collection                     *)

\* the threads of the process that run retriever_node
CallerIds == {1, 2}

\* how many times each thread runs retriever_node
MaxCalls == 2

\* the two caches, in the order retriever_node asks for them
HandleNames == <<"embedder", "collection">>

\* a thread about to run retriever_node for the first time
ReadyCaller == [pc |-> "ready", h |-> 1, round |-> 0, got |-> <<>>]

\* _embedder = None and _collection = None at import; built counts the
\* constructions
InitHandles ==
    /\ pc = "idle"
    /\ state = EmptyDict
    /\ args = EmptyDict
    /\ trace = <<>>
    /\ runs = <<>>
    /\ lists = <<>>
    /\ handles = [h \in 1..Len(HandleNames) |-> [cache |-> None, built |-> 0]]
    /\ threads = [t \in CallerIds |-> ReadyCaller]
    /\ synth = <<>>
    /\ ui = <<>>
    /\ ops = <<>>
    /\ split = <<>>

\* retriever_node in thread t calls get_embedder()
CallGetter(t) ==
    /\ threads[t].pc = "ready"
    /\ threads[t].round < MaxCalls
    /\ threads' = [threads EXCEPT ![t].pc = "test", ![t].h = 1]
    /\ UNCHANGED <<pc, state, args, trace, runvars, handles, appvars>>

\* `if _embedder is None:` / `if _collection is None:`
TestCache(t) ==
    /\ threads[t].pc = "test"
    /\ threads' = [threads EXCEPT ![t].pc =
                      IF handles[threads[t].h].cache = None THEN "construct" ELSE "return"]
    /\ UNCHANGED <<pc, state, args, trace, runvars, handles, appvars>>

\* `_embedder = SentenceTransformer(EMBEDDING_MODEL)` /
\* `_collection = client.get_or_create_collection(COLLECTION_NAME)`: a new
\* object is built and stored in the global
Construct(t) ==
    /\ threads[t].pc = "construct"
    /\ handles' = [handles EXCEPT ![threads[t].h] =
                      [cache |-> <<HandleNames[threads[t].h], handles[threads[t].h].built + 1>>,
                       built |-> handles[threads[t].h].built + 1]]
    /\ threads' = [threads EXCEPT ![t].pc = "return"]
    /\ UNCHANGED <<pc, state, args, trace, runvars, appvars>>

\* `return _embedder` / `return _collection`: the caller gets what the global
\* holds now; after get_embedder retriever_node calls get_collection, after
\* that its run of the two getters is over
ReturnHandle(t) ==
    /\ threads[t].pc = "return"
    /\ threads' = [threads EXCEPT
                      ![t].got = Append(threads[t].got, handles[threads[t].h].cache),
                      ![t].pc = IF threads[t].h < Len(HandleNames) THEN "test" ELSE "ready",
                      ![t].h = IF threads[t].h < Len(HandleNames) THEN threads[t].h + 1 ELSE 1,
                      ![t].round = IF threads[t].h < Len(HandleNames) THEN threads[t].round
                                   ELSE threads[t].round + 1]
    /\ UNCHANGED <<pc, state, args, trace, runvars, handles, appvars>>

NextHandles ==
    \/ \E t \in CallerIds : CallGetter(t)
    \/ \E t \in CallerIds : TestCache(t)
    \/ \E t \in CallerIds : Construct(t)
    \/ \E t \in CallerIds : ReturnHandle(t)

SpecHandles == InitHandles /\ [][NextHandles]_vars

-----------------------------------------------------------------------------
(* The Answer Synthesizer: answer_with_citations and its streaming variant *)

\* the most chunks a backend stream delivers
MaxChunks == 3

\* one call of invoke_graph has not started
CoreIdle ==
    /\ pc = "idle"
    /\ state = EmptyDict
    /\ args = EmptyDict
    /\ trace = <<>>

\* what a chunk of the backend's stream carries as delta.content: None (also
\* a chunk without choices, where reading the delta raises), the empty
\* string, or text
NoDelta == <<None>>

ChunkValues ==
    { NoDelta, <<>>, <<" ">>, <<"[","a"," ","p","3","]">>, <<"o","k">> }

\* `if delta:`
Truthy(delta) == delta # NoDelta /\ delta # <<>>

\* the text a chunk adds to the answer
DeltaText(delta) == IF delta = NoDelta THEN <<>> ELSE delta

\* the backend does not fail: a failure point no stream reaches
Never == MaxChunks + 1

\* what the backend does on one request: the chunks it generates and, when
\* it fails, after how many of them (0: the request itself raises); failing
\* is Never when it does not fail
BackendScripts ==
    {[chunks |-> c, failing |-> f] :
        <<c, f>> \in {cf \in (UNION {[1..m -> ChunkValues] : m \in 0..MaxChunks})
                              \X ({Never} \cup (0..MaxChunks)) :
                         cf[2] = Never \/ cf[2] <= Len(cf[1])}}

\* the lists of contexts retriever_node produces
RetrieverContexts == {[i \in 1..n |-> Hit(i)] : n \in 0..MaxHits}

\* format_context_block: for each context "Source: {src} p{page}\n{text}",
\* src the filename or else the source, page "?" when absent; the blocks are
\* joined by "\n\n---\n\n"
format_context_block(contexts) ==
    [i \in 1..Len(contexts) |->
        <<"Source: ",
          Get(contexts[i].metadata, "filename", Get(contexts[i].metadata, "source", "")),
          " p", Get(contexts[i].metadata, "page", "?"), "\n", contexts[i].document>>]

\* the metadata of a hit that was stored without any: Chroma returns None
NoMetadata == [k \in {None} |-> None]

\* format_context_block raises when a context's metadata is not a dict
\* (meta.get on None); the indexer of this repository stores metadata with
\* every chunk
FormatRaises(contexts) == \E i \in 1..Len(contexts) : contexts[i].metadata = NoMetadata

\* the reason str(e) of a backend failure
FailureReason == <<"t","i","m","e","o","u","t">>

\* f"[LLM error] {e}. Proceed with retrieved sources below."
ErrorMessage(reason) ==
    <<"[","L","L","M"," ","e","r","r","o","r","]"," ">> \o reason \o
    <<"."," ","P","r","o","c","e","e","d"," ","w","i","t","h"," ",
      "r","e","t","r","i","e","v","e","d"," ","s","o","u","r","c","e","s",
      " ","b","e","l","o","w",".">>

\* a faulty variant of OnBackendError: the exception is not caught
OnBackendError_Propagates(reason) == [raised |-> TRUE, text |-> <<>>]

\* `except Exception as e:` of both variants: the exception becomes text
OnBackendError(reason) == [raised |-> FALSE, text |-> ErrorMessage(reason)]

\* the whole text the chunks c[1..k] carry
RECURSIVE ChunkText(_, _)
ChunkText(c, k) == IF k = 0 THEN <<>> ELSE ChunkText(c, k - 1) \o DeltaText(c[k])

\* a faulty variant of YieldDelta: the newest fragment is put in front
YieldDelta_InFront(out, delta) == IF Truthy(delta) THEN <<delta>> \o out ELSE out

\* `if delta: yield delta`: what the consumer has received after the chunk
YieldDelta(out, delta) == IF Truthy(delta) THEN Append(out, delta) ELSE out

\* a call that has not been made: variant is "plain" for
\* answer_with_citations and "stream" for stream_answer_with_citations
InitSynth ==
    /\ CoreIdle
    /\ runs = <<>> /\ lists = <<>> /\ handles = <<>> /\ threads = <<>>
    /\ ui = <<>> /\ ops = <<>> /\ split = <<>>
    /\ \E variant \in {"plain", "stream"}, configured \in BOOLEAN,
          contexts \in RetrieverContexts, backend \in BackendScripts :
          synth = [pc |-> "called", variant |-> variant, configured |-> configured,
                   contexts |-> contexts, backend |-> backend, pos |-> 0,
                   out |-> <<>>, result |-> <<>>]

\* get_llm_client() returns None: the fixed message is returned, or yielded
\* as the only fragment
SynthDisabled ==
    /\ synth.pc = "called"
    /\ ~synth.configured
    /\ synth' = IF synth.variant = "plain"
                 THEN [synth EXCEPT !.pc = "done", !.result = LLMDisabled]
                 ELSE [synth EXCEPT !.pc = "yielded", !.out = <<LLMDisabled>>]
    /\ UNCHANGED <<corevars, runvars, handlevars, ui, ops, split>>

\* `return` after the fallback was yielded: the generator ends
SynthReturn ==
    /\ synth.pc = "yielded"
    /\ synth' = [synth EXCEPT !.pc = "done"]
    /\ UNCHANGED <<corevars, runvars, handlevars, ui, ops, split>>

\* with a client: the prompt is formatted, outside any try, and the request
\* is made inside it. The plain variant returns the stripped content or the
\* error text; the streaming variant starts to iterate or yields the error
\* text
SynthRequest ==
    /\ synth.pc = "called"
    /\ synth.configured
    /\ synth' =
          IF FormatRaises(synth.contexts) THEN [synth EXCEPT !.pc = "raised"]
          ELSE IF synth.variant = "plain"
          THEN IF synth.backend.failing # Never
               THEN IF OnBackendError(FailureReason).raised
                    THEN [synth EXCEPT !.pc = "raised"]
                    ELSE [synth EXCEPT !.pc = "done",
                                       !.result = OnBackendError(FailureReason).text]
               ELSE [synth EXCEPT !.pc = "done",
                                  !.result = str_strip(ChunkText(synth.backend.chunks,
                                                                 Len(synth.backend.chunks)))]
          ELSE IF synth.backend.failing = 0
               THEN IF OnBackendError(FailureReason).raised
                    THEN [synth EXCEPT !.pc = "raised"]
                    ELSE [synth EXCEPT !.pc = "done",
                                       !.out = <<OnBackendError(FailureReason).text>>]
               ELSE [synth EXCEPT !.pc = "streaming"]
    /\ UNCHANGED <<corevars, runvars, handlevars, ui, ops, split>>

\* one turn of `for chunk in stream:` that gets a chunk
StreamChunk ==
    /\ synth.pc = "streaming"
    /\ synth.pos < Len(synth.backend.chunks)
    /\ synth.backend.failing # synth.pos
    /\ synth' = [synth EXCEPT !.pos = synth.pos + 1,
                               !.out = YieldDelta(synth.out, synth.backend.chunks[synth.pos + 1])]
    /\ UNCHANGED <<corevars, runvars, handlevars, ui, ops, split>>

\* the stream raises instead of delivering the next chunk
StreamFail ==
    /\ synth.pc = "streaming"
    /\ synth.backend.failing = synth.pos
    /\ synth' = IF OnBackendError(FailureReason).raised
                 THEN [synth EXCEPT !.pc = "raised"]
                 ELSE [synth EXCEPT !.pc = "done",
                                    !.out = Append(synth.out, OnBackendError(FailureReason).text)]
    /\ UNCHANGED <<corevars, runvars, handlevars, ui, ops, split>>

\* the stream is exhausted: the generator ends
StreamEnd ==
    /\ synth.pc = "streaming"
    /\ synth.pos = Len(synth.backend.chunks)
    /\ synth.backend.failing = Never
    /\ synth' = [synth EXCEPT !.pc = "done"]
    /\ UNCHANGED <<corevars, runvars, handlevars, ui, ops, split>>

NextSynth ==
    SynthDisabled \/ SynthReturn \/ SynthRequest \/ StreamChunk \/ StreamFail \/ StreamEnd

SpecSynth == InitSynth /\ [][NextSynth]_vars

\* the caller consumes the generator to its end
FairSpecSynth == SpecSynth /\ WF_vars(NextSynth)

-----------------------------------------------------------------------------
(* The Streamlit page: one session, the script run on every interaction *)

\* the most interactions of the user with the page
MaxEvents == 3

\* what the user types into the chat input
UIPrompts ==
    { <<"p","a","u","s","e"," ","'","G","a","r","l","i","c"," ","B","r","e","a","d","'">>,
      kw_pause,
      <<"s","e","t"," ","h","o","u","r","s"," ","9","-","5">>,
      <<"w","h","a","t"," ","i","s"," ","t","h","e"," ","w","e","a","t","h","e","r">> }

\* the sidebar's settings, left at their defaults
UIStyle == "detailed"

\* os.environ.get("OPERATOR_NAME", "demo_user")
OperatorName == "demo_user"

\* the texts the fragments of a backend's stream add up to: they are not
\* stripped
BackendStreams == BackendAnswers \cup {a \o <<"\n">> : a \in BackendAnswers}

\* what the fragments of stream_answer_with_citations add up to in a process
\* whose answer_with_citations has returned `answer`: the fallback text when
\* no backend is configured, else whatever the backend generates this time,
\* the error text included
StreamedAnswers(answer) ==
    IF answer = LLMDisabled THEN {LLMDisabled}
    ELSE BackendStreams \cup {LLMError}

\* the endpoint of the ops API for a proposal's type
Endpoint(type) ==
    IF type \in {"pause_item", "unpause_item", "update_hours"}
    THEN "/" \o type ELSE "/unknown"

\* a faulty variant of ApprovalPanel: the proposal is posted as soon as it is
\* shown
ApprovalPanel_PostsUnasked(last, approve) ==
    LET proposed == Get(last, "proposed_action", EmptyDict)
        shown == proposed # EmptyDict /\ Get(proposed, "type", None) # "unknown"
    IN  [buttons |-> shown,
         posts |-> IF shown
                   THEN <<[endpoint |-> Endpoint(Get(proposed, "type", None)),
                           payload |-> Put(proposed, "operator", OperatorName)]>>
                   ELSE <<>>]

\* the "Proposed Action" panel of one script run: whether the two buttons
\* are rendered, and the requests posted; approve is what
\* st.button("Approve Action") returns in this run
ApprovalPanel(last, approve) ==
    LET proposed == Get(last, "proposed_action", EmptyDict)
        shown == proposed # EmptyDict /\ Get(proposed, "type", None) # "unknown"
    IN  [buttons |-> shown,
         posts |-> IF shown /\ approve
                   THEN <<[endpoint |-> Endpoint(Get(proposed, "type", None)),
                           payload |-> Put(proposed, "operator", OperatorName)]>>
                   ELSE <<>>]

\* a new session: st.session_state holds an empty history and decision log
\* and no last_result, the page shows no buttons, nothing has been posted.
\* event, prompt, evaluated and events record the last interaction, the
\* prompt of the run, the answer the last finished run's pipeline returned
\* and the number of interactions
InitUI ==
    /\ CoreIdle
    /\ runs = <<>> /\ lists = <<>> /\ handles = <<>> /\ threads = <<>>
    /\ synth = <<>> /\ ops = <<>> /\ split = <<>>
    /\ ui = [history |-> <<>>, decision_log |-> <<>>, last_result |-> EmptyDict,
             buttons |-> FALSE, posts |-> <<>>, event |-> "none", prompt |-> <<>>,
             evaluated |-> <<>>, events |-> 0]

\* the user submits a prompt: the script resets the decision log and calls
\* invoke_graph
UISubmit ==
    /\ pc = "idle"
    /\ ui.events < MaxEvents
    /\ \E prompt \in UIPrompts :
        /\ args' = [query |-> prompt, top_k |-> DefaultTopK, style |-> UIStyle,
                    temperature |-> DefaultTemperature]
        /\ state' = InitState(prompt, DefaultTopK, UIStyle, DefaultTemperature)
        /\ ui' = [ui EXCEPT !.decision_log = <<>>, !.buttons = FALSE, !.event = "submit",
                            !.prompt = prompt, !.events = ui.events + 1]
    /\ pc' = "router"
    /\ trace' = <<>>
    /\ UNCHANGED <<runvars, handlevars, synth, ops, split>>

\* invoke_graph has returned: the script appends the user's message, streams
\* the answer again when there are contexts or else takes the result's,
\* appends it, extends the decision log, stores last_result and renders the
\* page, the approval panel included
UIPersist ==
    /\ pc = "END"
    /\ \E streamed \in (IF Get(state, "contexts", <<>>) # <<>>
                         THEN StreamedAnswers(Get(state, "answer", <<>>))
                         ELSE {Get(state, "answer", <<>>)}) :
        LET last == Put(state, "answer", streamed)
            panel == ApprovalPanel(last, FALSE)
        IN  ui' = [ui EXCEPT
                     !.history = ui.history \o <<[role |-> "user", content |-> ui.prompt],
                                                 [role |-> "assistant", content |-> streamed]>>,
                     !.decision_log = ui.decision_log \o Get(state, "log", <<>>),
                     !.last_result = last,
                     !.evaluated = Get(state, "answer", <<>>),
                     !.buttons = panel.buttons,
                     !.posts = ui.posts \o panel.posts]
    /\ pc' = "idle"
    /\ state' = EmptyDict
    /\ args' = EmptyDict
    /\ trace' = <<>>
    /\ UNCHANGED <<runvars, handlevars, synth, ops, split>>

\* invoke_graph has raised: the script has no handler around it, the run
\* stops there and the page shows the exception
UIAbort ==
    /\ pc = "FAILED"
    /\ ui' = [ui EXCEPT !.buttons = FALSE]
    /\ pc' = "idle"
    /\ state' = EmptyDict
    /\ args' = EmptyDict
    /\ trace' = <<>>
    /\ UNCHANGED <<runvars, handlevars, synth, ops, split>>

\* a script run with no prompt, on the click `clicked` ("approve", "deny")
\* or on another widget ("rerun")
UIRun(clicked) ==
    LET panel == ApprovalPanel(ui.last_result, clicked = "approve")
    IN  /\ pc = "idle"
        /\ ui.events < MaxEvents
        /\ ui' = [ui EXCEPT !.buttons = panel.buttons,
                            !.posts = ui.posts \o panel.posts,
                            !.event = clicked,
                            !.events = ui.events + 1]
        /\ UNCHANGED <<corevars, runvars, handlevars, synth, ops, split>>

\* the user changes a setting in the sidebar
UIRerun == UIRun("rerun")

\* the user clicks "Approve Action", a button of the page
UIApprove == ui.buttons /\ UIRun("approve")

\* the user clicks "Deny Action", a button of the page
UIDeny == ui.buttons /\ UIRun("deny")

NextUI ==
    \/ UISubmit \/ Router \/ Retriever \/ Compose \/ Critic \/ Action
    \/ UIPersist \/ UIAbort \/ UIRerun \/ UIApprove \/ UIDeny

SpecUI == InitUI /\ [][NextUI]_vars

-----------------------------------------------------------------------------
(* The ops stub API: the state file, the audit file and the handlers *)

\* the requests the API receives, each served by a thread of its own
MaxRequests == 2

RequestIds == 1..MaxRequests

\* the bodies of the requests: type and operator are required by
\* ActionPayload, item, details and original_query default to None
OpsPayloads ==
    {[type |-> t, operator |-> OperatorName, item |-> i, details |-> None,
      original_query |-> None] :
        t \in {"pause_item", "unpause_item"},
        i \in {None, "", "Garlic Bread", "Cheesecake"}}
    \cup
    {[type |-> "update_hours", operator |-> OperatorName, item |-> None, details |-> d,
      original_query |-> q] :
        d \in {None, "", "9-5"}, q \in {None, "set hours 9-5"}}

\* `not value` of an Optional[str]
Falsy(value) == value = None \/ value = ""

\* a faulty variant of MissingItem: only an absent item is refused
MissingItem_NoneOnly(endpoint, payload) ==
    endpoint \in {"/pause_item", "/unpause_item"} /\ payload.item = None

\* `if not payload.item:` of pause_item and unpause_item; update_hours has
\* no such test
MissingItem(endpoint, payload) ==
    endpoint \in {"/pause_item", "/unpause_item"} /\ Falsy(payload.item)

\* OpsState(): no items, no hours note
DefaultOpsState == [items |-> EmptyDict, hours_note |-> ""]

\* the state a handler saves: the loaded one with the handler's one write
Applied(loaded, endpoint, payload) ==
    IF endpoint = "/pause_item"
    THEN [loaded EXCEPT !.items = Put(loaded.items, payload.item, "paused")]
    ELSE IF endpoint = "/unpause_item"
    THEN [loaded EXCEPT !.items = Put(loaded.items, payload.item, "active")]
    ELSE [loaded EXCEPT !.hours_note =
              IF ~Falsy(payload.details) THEN payload.details
              ELSE IF ~Falsy(payload.original_query) THEN payload.original_query
              ELSE "updated hours"]

\* the entry a handler appends to the audit file; request tells which
\* request wrote it and stands for the entry's time stamp
AuditEntry(r, endpoint, payload) ==
    [action |-> (CASE endpoint = "/pause_item" -> "pause_item"
                   [] endpoint = "/unpause_item" -> "unpause_item"
                   [] endpoint = "/update_hours" -> "update_hours"),
     payload |-> payload, request |-> r]

\* no request has arrived; the state file does not exist yet, load_state
\* gives the default state, the audit file is empty
InitOps ==
    /\ CoreIdle
    /\ runs = <<>> /\ lists = <<>> /\ handles = <<>> /\ threads = <<>>
    /\ synth = <<>> /\ ui = <<>> /\ split = <<>>
    /\ ops = [file |-> DefaultOpsState, audit |-> <<>>,
              reqs |-> [r \in RequestIds |->
                           [pc |-> "none", endpoint |-> None, payload |-> None,
                            local |-> DefaultOpsState, status |-> 0]]]

\* a POST arrives at one of the three endpoints and its handler starts: the
\* item test of pause_item and unpause_item answers 400 at once
OpsReceive(r) ==
    /\ ops.reqs[r].pc = "none"
    /\ \E endpoint \in {"/pause_item", "/unpause_item", "/update_hours"},
          payload \in OpsPayloads :
          ops' = [ops EXCEPT !.reqs[r] =
                      IF MissingItem(endpoint, payload)
                      THEN [@ EXCEPT !.pc = "done", !.endpoint = endpoint,
                                     !.payload = payload, !.status = 400]
                      ELSE [@ EXCEPT !.pc = "load", !.endpoint = endpoint,
                                     !.payload = payload]]
    /\ UNCHANGED <<corevars, runvars, handlevars, synth, ui, split>>

\* state = load_state() and the handler's write to its copy
OpsLoad(r) ==
    /\ ops.reqs[r].pc = "load"
    /\ ops' = [ops EXCEPT !.reqs[r].pc = "save",
                          !.reqs[r].local = Applied(ops.file, ops.reqs[r].endpoint,
                                                    ops.reqs[r].payload)]
    /\ UNCHANGED <<corevars, runvars, handlevars, synth, ui, split>>

\* save_state(state): the file is replaced by the handler's copy
OpsSave(r) ==
    /\ ops.reqs[r].pc = "save"
    /\ ops' = [ops EXCEPT !.reqs[r].pc = "audit", !.file = ops.reqs[r].local]
    /\ UNCHANGED <<corevars, runvars, handlevars, synth, ui, split>>

\* append_audit(...) and the 200 response
OpsAudit(r) ==
    /\ ops.reqs[r].pc = "audit"
    /\ ops' = [ops EXCEPT !.reqs[r].pc = "done", !.reqs[r].status = 200,
                          !.audit = Append(ops.audit,
                                           AuditEntry(r, ops.reqs[r].endpoint,
                                                      ops.reqs[r].payload))]
    /\ UNCHANGED <<corevars, runvars, handlevars, synth, ui, split>>

\* the handlers are plain functions, which the server runs in the threads
\* of a pool: their steps interleave
NextOps ==
    \E r \in RequestIds : OpsReceive(r) \/ OpsLoad(r) \/ OpsSave(r) \/ OpsAudit(r)

SpecOps == InitOps /\ [][NextOps]_vars

-----------------------------------------------------------------------------
(* split_text: the character splitter of the indexer *)

\* the longest text split
MaxLen == 6

\* the largest --chunk-size
MaxChunkSize == 3

\* the largest --overlap
MaxOverlap == 3

\* the turns of the loop that are followed: more than any call that
\* returns takes on a text of MaxLen characters
MaxIterations == MaxLen + 1

\* a faulty variant of NextStart: the overlap is not taken off
NextStart_NoOverlap(end, overlap) == end

\* start = max(0, end - overlap)
NextStart(end, overlap) == IF end >= overlap THEN end - overlap ELSE 0

\* split_text(text, chunk_size, overlap) is entered: n = len(text),
\* start = 0, no chunks; a chunk text[start:end] is kept as <<start, end>>
InitSplit ==
    /\ CoreIdle
    /\ runs = <<>> /\ lists = <<>> /\ handles = <<>> /\ threads = <<>>
    /\ synth = <<>> /\ ui = <<>> /\ ops = <<>>
    /\ \E n \in 0..MaxLen, chunk_size \in 1..MaxChunkSize, overlap \in 0..MaxOverlap :
          split = [pc |-> "while", n |-> n, chunk_size |-> chunk_size, overlap |-> overlap,
                   start |-> 0, chunks |-> <<>>]

\* one turn of `while start < n:`: the chunk is appended, and the loop is
\* left when it ends the text or else start is moved
SplitTurn ==
    /\ split.pc = "while"
    /\ split.start < split.n
    /\ Len(split.chunks) < MaxIterations
    /\ LET end == Min({split.start + split.chunk_size, split.n})
       IN  split' = [split EXCEPT
                       !.chunks = Append(split.chunks, <<split.start, end>>),
                       !.pc = IF end = split.n THEN "returned" ELSE "while",
                       !.start = IF end = split.n THEN split.start
                                 ELSE NextStart(end, split.overlap)]
    /\ UNCHANGED <<corevars, runvars, handlevars, synth, ui, ops>>

\* the loop's test fails: `return chunks`
SplitReturn ==
    /\ split.pc = "while"
    /\ split.start >= split.n
    /\ split' = [split EXCEPT !.pc = "returned"]
    /\ UNCHANGED <<corevars, runvars, handlevars, synth, ui, ops>>

NextSplit == SplitTurn \/ SplitReturn

SpecSplit == InitSplit /\ [][NextSplit]_vars

\* the call runs on
FairSpecSplit == SpecSplit /\ WF_vars(NextSplit)

-----------------------------------------------------------------------------
(* Properties                                                              *)

\* s is a prefix of t
IsPrefix(s, t) == Len(s) <= Len(t) /\ \A i \in 1..Len(s) : s[i] = t[i]

\* the pc values at which a node is about to execute
Nodes == {"router", "retriever", "compose", "critic", "action"}

\* the order of the nodes on the knowledge branch
KnowledgeOrder == <<"router", "retriever", "compose", "critic">>

\* the order of the nodes on the action branch
ActionOrder == <<"router", "action">>

\* the keywords of spec section 4.1, as a set
KeywordSet ==
    { <<"p","a","u","s","e">>, <<"u","n","p","a","u","s","e">>, <<"r","e","s","u","m","e">>, <<"u","p","d","a","t","e"," ","h","o","u","r","s">>, <<"c","h","a","n","g","e"," ","h","o","u","r","s">>, <<"s","e","t"," ","h","o","u","r","s">> }

\* some keyword occurs in q, letter case ignored
HasKeyword(q) ==
    \E k \in KeywordSet : \E i \in 1..Len(q) :
        /\ i + Len(k) - 1 <= Len(q)
        /\ \A j \in 1..Len(k) : Lower(q[i + j - 1]) = k[j]

\* C1: once the Router has run, intent is action exactly when the
\* lower-cased query contains one of the six keywords as a substring and
\* knowledge otherwise (the empty query included); for every query waiting
\* at the Router the classification has a value.
C1_RouterIntent ==
    /\ Has(state, "intent") =>
          /\ state["intent"] \in {"action", "knowledge"}
          /\ state["intent"] = "action" <=> HasKeyword(state["query"])
    /\ pc = "router" => route(state["query"]) \in {"action", "knowledge"}

\* C1 witness: a query whose keyword is in mixed case has been routed to
\* the action branch
C1_Witness ==
    /\ pc = "action"
    /\ state["query"] = <<"R","e","s","u","m","e"," ">>
    /\ state["intent"] = "action"

\* C2: the nodes executed so far are always an initial part of one of the two
\* orders, the node about to run is the next one of that order, the branch
\* taken after the Router is the one intent names, no node runs twice, and a
\* run that is at END has executed exactly one of the two orders.
C2_NodeOrder ==
    /\ IsPrefix(trace, KnowledgeOrder) \/ IsPrefix(trace, ActionOrder)
    /\ \A i \in 1..Len(trace) : \A j \in 1..Len(trace) : trace[i] = trace[j] => i = j
    /\ pc \in Nodes =>
          \/ IsPrefix(Append(trace, pc), KnowledgeOrder)
          \/ IsPrefix(Append(trace, pc), ActionOrder)
    /\ Len(trace) >= 1 /\ pc \in Nodes =>
          /\ Get(state, "intent", None) = "knowledge" => IsPrefix(Append(trace, pc), KnowledgeOrder)
          /\ Get(state, "intent", None) = "action" => IsPrefix(Append(trace, pc), ActionOrder)
    /\ pc = "END" =>
          \/ Get(state, "intent", None) = "knowledge" /\ trace = KnowledgeOrder
          \/ Get(state, "intent", None) = "action" /\ trace = ActionOrder

\* C2 witness: a knowledge run has reached END
C2_Witness == pc = "END" /\ trace = KnowledgeOrder

\* C3: a run cannot fail partway: whatever the Retrieval Client and the
\* Answer Synthesizer do, no exception leaves the run.
C3_RunNeverFails == pc # "FAILED"

\* C4: in the final state of a run query, intent, answer and log are
\* present, a knowledge run has contexts and no proposed_action, an action
\* run has proposed_action and no contexts; no state holds both contexts and
\* proposed_action.
C4_OneBranchPopulated ==
    /\ ~(Has(state, "contexts") /\ Has(state, "proposed_action"))
    /\ pc = "END" =>
          /\ {"query", "intent", "answer", "log"} \subseteq DOMAIN state
          /\ state["intent"] = "knowledge" =>
                Has(state, "contexts") /\ ~Has(state, "proposed_action")
          /\ state["intent"] = "action" =>
                Has(state, "proposed_action") /\ ~Has(state, "contexts")

\* C4 witness: a knowledge run has ended with passages and an answer
C4_Witness ==
    /\ pc = "END"
    /\ Get(state, "intent", None) = "knowledge"
    /\ Len(Get(state, "contexts", <<>>)) > 0
    /\ Has(state, "answer")

\* a step keeps to the discipline of C5
IntentWrittenOnceFirst ==
    /\ (~Has(state, "intent") /\ Has(state', "intent")) => pc = "router"
    /\ (pc = "router") => Has(state', "intent")
    /\ (Has(state, "intent") /\ pc' # "idle") =>
          (Has(state', "intent") /\ state'["intent"] = state["intent"])
    /\ (Has(state', "contexts") \/ Has(state', "proposed_action")) =>
          Has(state', "intent")

\* C5: within a run intent goes from unset to set only in the Router's
\* step and never changes afterwards, and contexts or proposed_action is
\* never set while intent is unset.
C5_IntentOnceFirst == [][IntentWrittenOnceFirst]_vars

\* C5 witness: contexts has been written in a run whose intent is set
C5_Witness == pc = "compose" /\ Has(state, "contexts") /\ Has(state, "intent")

\* the node that wrote a trace line
EntryNode(entry) ==
    CASE entry[1] = "Router → " -> "router"
      [] entry[1] = "Retriever → Compose" -> "retriever"
      [] entry[1] = "Compose → Critic" -> "compose"
      [] entry[1] = "Critic → END (grounded=" -> "critic"
      [] entry[1] = "Action → END (proposed=" -> "action"
      [] OTHER -> "?"

\* a step keeps to the discipline of C6
LogAppended ==
    pc \in Nodes =>
        /\ IsPrefix(state["log"], state'["log"])
        /\ pc' # "FAILED" => Len(state'["log"]) > Len(state["log"])
        /\ pc' # "FAILED" => Len(state'["log"]) = Len(trace')
        /\ \A i \in 1..Len(state'["log"]) :
              i <= Len(trace') /\ EntryNode(state'["log"][i]) = trace'[i]

\* C6: every step of a node leaves the old log as a prefix of the new one,
\* every node that returns makes it strictly longer, and the entries are in
\* the order in which the nodes ran.
C6_LogAppendOnly == [][LogAppended]_vars

\* C6 witness: a run has ended with the four entries of the knowledge branch
C6_Witness == pc = "END" /\ Len(Get(state, "log", <<>>)) = 4

IsCriticEntry(entry) == entry[1] = "Critic → END (grounded="

IsActionEntry(entry) == entry[1] = "Action → END (proposed="

\* C7: at END the last log entry of a knowledge run is a Critic entry and
\* that of an action run an Action entry, and no log holds both a Critic
\* entry and an Action entry.
C7_LastEntry ==
    /\ Has(state, "log") =>
          ~(/\ \E i \in 1..Len(state["log"]) : IsCriticEntry(state["log"][i])
            /\ \E i \in 1..Len(state["log"]) : IsActionEntry(state["log"][i]))
    /\ pc = "END" =>
          /\ Len(state["log"]) > 0
          /\ Get(state, "intent", None) = "knowledge" =>
                IsCriticEntry(state["log"][Len(state["log"])])
          /\ Get(state, "intent", None) = "action" =>
                IsActionEntry(state["log"][Len(state["log"])])
          /\ Get(state, "intent", None) \in {"knowledge", "action"}

\* C7 witness: an action run has ended on its Action entry
C7_Witness ==
    /\ pc = "END"
    /\ Get(state, "intent", None) = "action"
    /\ IsActionEntry(state["log"][Len(state["log"])])

\* C8: from the call of invoke_graph to the final state, on both branches,
\* query, top_k, style and temperature in the state are the values the
\* caller passed.
C8_QueryImmutable ==
    pc \in Nodes \cup {"END", "FAILED"} =>
        /\ Has(state, "query") /\ state["query"] = args["query"]
        /\ Has(state, "top_k") /\ state["top_k"] = args["top_k"]
        /\ Has(state, "temperature") /\ state["temperature"] = args["temperature"]
        /\ Get(state, "style", None) = args["style"]

\* C8 witness: an action run on a query with capital letters has ended with
\* the query it was called with
C8_Witness ==
    /\ pc = "END"
    /\ Has(state, "proposed_action")
    /\ state["query"] = <<"R","e","s","u","m","e"," ","G","a","r","l","i","c">>
    /\ args["query"] = state["query"]
    /\ Get(state, "style", None) = "concise"

\* the item verbs in the letter cases the inputs use
ItemVerbForms == {kw_pause, kw_unpause, kw_resume, <<"P","a","u","s","e">>, <<"R","e","s","u","m","e">>}

\* the character q begins and ends with when it is verb, space, quote, name,
\* quote, and name is one or more words without quotes; "" otherwise
QuotedNameOf(q) ==
    LET fits == {<<v, n>> \in ItemVerbForms \X (1..Len(q)) :
                    /\ Len(v) + 3 <= n /\ n = Len(q) - 1
                    /\ SubSeq(q, 1, Len(v)) = v
                    /\ q[Len(v) + 1] = " "
                    /\ IsQuote(q[Len(v) + 2]) /\ q[Len(q)] = q[Len(v) + 2]
                    /\ \A i \in (Len(v) + 3)..n : ~IsQuote(q[i])
                    /\ IsWord(q[Len(v) + 3]) /\ IsWord(q[n])}
    IN  IF fits = {} THEN <<>>
        ELSE LET f == CHOOSE f \in fits : TRUE IN SubSeq(q, Len(f[1]) + 3, f[2])

\* C9: for a query made of an item verb and a quoted item name of one or
\* more words, the proposal's item is the whole name between the quotes.
C9_QuotedItemWhole ==
    (Has(state, "proposed_action") /\ QuotedNameOf(state["query"]) # <<>>) =>
        /\ Has(state["proposed_action"], "item")
        /\ state["proposed_action"]["item"] = QuotedNameOf(state["query"])

\* q begins with the verb v in any letter case, whitespace and a word character
BeginsWithVerb(q, v) ==
    /\ Len(q) >= Len(v) + 2
    /\ \A j \in 1..Len(v) : Lower(q[j]) = v[j]
    /\ IsSpace(q[Len(v) + 1])
    /\ IsWord(q[Len(v) + 2])

AllSpaces(q, a, b) == b <= Len(q) /\ \A x \in a..b : IsSpace(q[x])

\* the hours verbs of spec section 4.5
HoursVerbs == {<<"u","p","d","a","t","e">>, <<"s","e","t">>, <<"c","h","a","n","g","e">>}

\* the positions after the word "hours" of the texts that start at i with an
\* hours verb, whitespace, optionally "opening" and whitespace, then "hours",
\* letter case ignored
HoursSpanEnds(q, i) ==
    {h \in (i + 1)..(Len(q) + 1) :
        \E v \in HoursVerbs :
            /\ MatchesAt(q, i, v)
            /\ MatchesAt(q, h - Len(kw_hours), kw_hours)
            /\ \/ /\ h - Len(kw_hours) > i + Len(v)
                  /\ AllSpaces(q, i + Len(v), h - Len(kw_hours) - 1)
               \/ \E o \in (i + Len(v) + 1)..h :
                      /\ AllSpaces(q, i + Len(v), o - 1)
                      /\ MatchesAt(q, o, kw_opening)
                      /\ h - Len(kw_hours) > o + Len(kw_opening)
                      /\ AllSpaces(q, o + Len(kw_opening), h - Len(kw_hours) - 1)}

\* the positions of q at which such a text starts
HoursSpanStarts(q) == {i \in 1..Len(q) : HoursSpanEnds(q, i) # {}}

\* the text from position i to the end of the line that holds position h - 1
SpanToLineEnd(q, i, h) ==
    SubSeq(q, i, (CHOOSE e \in h..(Len(q) + 1) :
                     /\ e = Len(q) + 1 \/ q[e] = "\n"
                     /\ \A x \in h..(e - 1) : q[x] # "\n") - 1)

\* s with the whitespace at both ends removed
Trimmed(s) ==
    IF \A x \in 1..Len(s) : IsSpace(s[x]) THEN <<>>
    ELSE SubSeq(s, CHOOSE a \in 1..Len(s) : ~IsSpace(s[a]) /\ \A x \in 1..(a - 1) : IsSpace(s[x]),
                   CHOOSE b \in 1..Len(s) : ~IsSpace(s[b]) /\ \A x \in (b + 1)..Len(s) : IsSpace(s[x]))

\* the span the hours pattern covers in q: from the first verb that starts
\* such a text to the end of the trailing text on that line
HoursSpan(q) ==
    SpanToLineEnd(q, Min(HoursSpanStarts(q)), Min(HoursSpanEnds(q, Min(HoursSpanStarts(q)))))

\* the query of the example in spec section 8
HoursExample ==
    <<"p","l","e","a","s","e"," ","u","p","d","a","t","e"," ","o","p","e","n","i","n","g"," ","h","o","u","r","s"," ","f","o","r"," ","F","r","i","d","a","y"," ","t","o"," ","9","-","5">>

\* the details the example gives
HoursExampleDetails ==
    <<"u","p","d","a","t","e"," ","o","p","e","n","i","n","g"," ","h","o","u","r","s"," ","f","o","r"," ","F","r","i","d","a","y"," ","t","o"," ","9","-","5">>

\* C11: when the item pattern does not match and the query holds an hours
\* verb, whitespace, optionally "opening", then "hours", the proposal has
\* type update_hours and details equal to the text from the first such verb
\* to the end of the trailing text, trimmed: it begins with the verb, holds
\* nothing that precedes the verb and has no whitespace at either end;
\* "please update opening hours for Friday to 9-5" gives
\* "update opening hours for Friday to 9-5".
C11_HoursDetails ==
    /\ (/\ Has(state, "proposed_action")
        /\ ~action_item_re(state["query"]).matched
        /\ HoursSpanStarts(state["query"]) # {}) =>
          /\ state["proposed_action"]["type"] = "update_hours"
          /\ Has(state["proposed_action"], "details")
          /\ state["proposed_action"]["details"] = Trimmed(HoursSpan(state["query"]))
          /\ \E v \in HoursVerbs : MatchesAt(state["proposed_action"]["details"], 1, v)
    /\ (Has(state, "proposed_action") /\ state["query"] = HoursExample) =>
          /\ state["proposed_action"]["type"] = "update_hours"
          /\ state["proposed_action"]["details"] = HoursExampleDetails

\* C11 witness: the example query, with text before the verb, has been given
\* its update_hours proposal
C11_Witness ==
    /\ Has(state, "proposed_action")
    /\ state["query"] = HoursExample
    /\ state["proposed_action"]["type"] = "update_hours"
    /\ Get(state["proposed_action"], "details", <<>>) = HoursExampleDetails


\* the item verbs of spec section 4.5
ItemVerbs == {<<"p","a","u","s","e">>, <<"u","n","p","a","u","s","e">>, <<"r","e","s","u","m","e">>}

\* q[a..b-1] is an optional ' followed by an optional "
OptQuotes(q, a, b) ==
    \/ b = a
    \/ b = a + 1 /\ b - 1 <= Len(q) /\ IsQuote(q[a])
    \/ b = a + 2 /\ b - 1 <= Len(q) /\ q[a] = "'" /\ q[a + 1] = "\""

\* position t of q holds a word character
WordAt(q, t) == t >= 1 /\ t <= Len(q) /\ IsWord(q[t])

\* the item names that can follow whitespace that ends before w: one or more
\* characters other than quotes, optional quotes on either side, a word
\* boundary behind
ItemNamesAt(q, w) ==
    {se \in (w..(w + 2)) \X ((w + 1)..(Len(q) + 1)) :
        /\ OptQuotes(q, w, se[1])
        /\ se[2] > se[1]
        /\ \A x \in se[1]..(se[2] - 1) : ~IsQuote(q[x])
        /\ \E t \in se[2]..(se[2] + 2) :
              OptQuotes(q, se[2], t) /\ WordAt(q, t - 1) # WordAt(q, t)}

\* some part of q is an item verb, whitespace and an item name
ItemPatternMatches(q) ==
    \E i \in 1..Len(q) : \E v \in ItemVerbs :
        /\ MatchesAt(q, i, v)
        /\ \E w \in (i + Len(v) + 1)..(Len(q) + 1) :
              AllSpaces(q, i + Len(v), w - 1) /\ ItemNamesAt(q, w) # {}

\* some part of q is an hours verb, whitespace, optional "opening", "hours"
HoursPatternMatches(q) == HoursSpanStarts(q) # {}

\* C12: for every query on which both the item pattern and the hours pattern
\* match, the proposal is an item proposal (pause_item or unpause_item with
\* item) without details; an update_hours proposal or a details field occurs
\* only for queries the item pattern does not match.
C12_ItemBeforeHours ==
    Has(state, "proposed_action") =>
        /\ (ItemPatternMatches(state["query"]) /\ HoursPatternMatches(state["query"])) =>
              /\ state["proposed_action"]["type"] \in {"pause_item", "unpause_item"}
              /\ Has(state["proposed_action"], "item")
              /\ ~Has(state["proposed_action"], "details")
        /\ (\/ state["proposed_action"]["type"] = "update_hours"
            \/ Has(state["proposed_action"], "details")) =>
              ~ItemPatternMatches(state["query"])

\* C12 witness: "pause SET hours", on which both patterns match, has been
\* given an item proposal
C12_Witness ==
    /\ Has(state, "proposed_action")
    /\ state["query"] = <<"p","a","u","s","e"," ","S","E","T"," ","h","o","u","r","s">>
    /\ HoursPatternMatches(state["query"])
    /\ state["proposed_action"]["type"] = "pause_item"
    /\ Get(state["proposed_action"], "item", <<>>) = <<"S","E","T">>

\* the two descriptions of the patterns agree with the compiled patterns
PatternsAgree ==
    pc = "action" =>
        /\ ItemPatternMatches(state["query"]) <=> action_item_re(state["query"]).matched
        /\ HoursPatternMatches(state["query"]) <=> action_hours_re(state["query"]).matched


\* the proposal types of spec section 3
ProposalTypes == {"pause_item", "unpause_item", "update_hours", "unknown"}

\* C13: every action proposal has one of the four types and original_query
\* equal to the query as given; the key item is present exactly for
\* pause_item and unpause_item, the key details exactly for update_hours,
\* there are no other keys, and when neither pattern matches the type is
\* unknown and type and original_query are the only keys.
C13_ProposalShape ==
    Has(state, "proposed_action") =>
        /\ DOMAIN state["proposed_action"] \subseteq {"type", "original_query", "item", "details"}
        /\ {"type", "original_query"} \subseteq DOMAIN state["proposed_action"]
        /\ state["proposed_action"]["type"] \in ProposalTypes
        /\ state["proposed_action"]["original_query"] = args["query"]
        /\ state["proposed_action"]["original_query"] = state["query"]
        /\ Has(state["proposed_action"], "item") <=>
              state["proposed_action"]["type"] \in {"pause_item", "unpause_item"}
        /\ Has(state["proposed_action"], "details") <=>
              state["proposed_action"]["type"] = "update_hours"
        /\ (~ItemPatternMatches(state["query"]) /\ ~HoursPatternMatches(state["query"])) =>
              /\ state["proposed_action"]["type"] = "unknown"
              /\ DOMAIN state["proposed_action"] = {"type", "original_query"}

\* C13 witness: "PAUSE ", an item verb with no item behind it, has been given
\* the proposal unknown with only original_query beside the type
C13_Witness ==
    /\ Has(state, "proposed_action")
    /\ state["query"] = <<"P","A","U","S","E"," ">>
    /\ state["proposed_action"]["type"] = "unknown"
    /\ state["proposed_action"]["original_query"] = <<"P","A","U","S","E"," ">>
    /\ DOMAIN state["proposed_action"] = {"type", "original_query"}

\* the confirmation answer of spec section 4.5 for a proposal type
ConfirmationAnswer(type) ==
    <<"I identified an action request: ", type,
      ". Review the proposed parameters below and approve to execute.">>

\* the trace line of spec section 4.5 for a proposal type
ActionTraceLine(type) == <<"Action → END (proposed=", type, ")">>

\* C14: every run whose intent is action ends with a proposal, and in every
\* state that holds a proposal, of whatever type, the answer is "I identified
\* an action request: <type>. Review the proposed parameters below and
\* approve to execute." and the last trace line is
\* "Action → END (proposed=<type>)", <type> being proposed_action.type of
\* that state.
C14_ConfirmationText ==
    /\ (pc = "END" /\ Get(state, "intent", None) = "action") => Has(state, "proposed_action")
    /\ Has(state, "proposed_action") =>
          /\ state["proposed_action"]["type"] \in ProposalTypes
          /\ Has(state, "answer")
          /\ state["answer"] = ConfirmationAnswer(state["proposed_action"]["type"])
          /\ Len(state["log"]) > 0
          /\ state["log"][Len(state["log"])] = ActionTraceLine(state["proposed_action"]["type"])

\* C14 witness: an action run has ended with the proposal unknown and the
\* confirmation answer for unknown
C14_Witness ==
    /\ pc = "END"
    /\ Get(state, "intent", None) = "action"
    /\ Has(state, "proposed_action")
    /\ state["proposed_action"]["type"] = "unknown"
    /\ state["answer"] = ConfirmationAnswer("unknown")
    /\ state["log"] = <<<<"Router → ", "Action">>, ActionTraceLine("unknown")>>


\* the query of the end-to-end scenario in spec section 8
BareItemExample ==
    <<"p","a","u","s","e"," ","t","h","e"," ","g","a","r","l","i","c"," ","b","r","e","a","d">>

\* q is "pause", a space and a bare item name of two or more words, single
\* spaces between them
IsBareMultiWord(q) ==
    /\ Len(q) >= Len(kw_pause) + 2
    /\ SubSeq(q, 1, Len(kw_pause)) = kw_pause
    /\ q[Len(kw_pause) + 1] = " "
    /\ IsWord(q[Len(kw_pause) + 2]) /\ IsWord(q[Len(q)])
    /\ \A x \in (Len(kw_pause) + 2)..Len(q) : IsWord(q[x]) \/ q[x] = " "
    /\ \A x \in (Len(kw_pause) + 2)..(Len(q) - 1) : ~(q[x] = " " /\ q[x + 1] = " ")
    /\ \E x \in (Len(kw_pause) + 2)..Len(q) : q[x] = " "

\* the item name typed in such a query, a leading article "the" left out
BareItemName(q) ==
    IF SubSeq(q, Len(kw_pause) + 2, Len(kw_pause) + 5) = <<"t","h","e"," ">>
    THEN SubSeq(q, Len(kw_pause) + 6, Len(q))
    ELSE SubSeq(q, Len(kw_pause) + 2, Len(q))

\* C15: a run on "pause" followed by a bare item name of several words ends
\* with intent action, a pause_item proposal whose item contains the whole
\* name as typed ("garlic bread" for "pause the garlic bread") and the
\* answer "I identified an action request: pause_item. ...".
C15_BareItemWhole ==
    (pc = "END" /\ IsBareMultiWord(state["query"])) =>
        /\ state["intent"] = "action"
        /\ state["proposed_action"]["type"] = "pause_item"
        /\ state["answer"][1] = "I identified an action request: "
        /\ state["answer"][2] = "pause_item"
        /\ Has(state["proposed_action"], "item")
        /\ str_contains(state["proposed_action"]["item"], BareItemName(state["query"]))

\* what the run on "pause the garlic bread" with top_k = 4 ends with
BareItemOutcome ==
    (pc = "END" /\ state["query"] = BareItemExample /\ state["top_k"] = DefaultTopK) =>
        /\ state["intent"] = "action"
        /\ state["proposed_action"]["type"] = "pause_item"
        /\ state["proposed_action"]["item"] = <<"t","h","e">>
        /\ state["answer"] = ConfirmationAnswer("pause_item")

\* the run on "pause the garlic bread" with top_k = 4 has ended
BareItemRunEnded ==
    pc = "END" /\ state["query"] = BareItemExample /\ state["top_k"] = DefaultTopK


\* a[i..e] is "[", one or more characters other than "]", " p", one or more
\* digits, "]"
IsCitation(a, i, e) ==
    /\ a[i] = "[" /\ a[e] = "]"
    /\ \E p \in (i + 2)..(e - 3) :
          /\ a[p] = " " /\ a[p + 1] = "p"
          /\ \A k \in (i + 1)..(p - 1) : a[k] # "]"
          /\ \A k \in (p + 2)..(e - 1) : a[k] \in {"0","1","2","3","4","5","6","7","8","9"}

\* a holds a citation marker
HasCitation(a) == \E i \in 1..Len(a) : \E e \in (i + 1)..Len(a) : IsCitation(a, i, e)

\* the answer of the first example in spec section 8
GroundedExample ==
    <<"S","e","e"," ","[","F","i","n","a","n","c","e","_","G","u","i","d","e"," ","p","3","]"," ","f","o","r"," ","d","e","t","a","i","l","s",".">>

\* C16: the grounding check is true exactly when the answer holds "[", one or
\* more characters other than "]", " p", one or more digits, "]"; the value
\* in the trace line "Critic → END (grounded=<bool>)" is that result for the
\* answer in the state, True for "See [Finance_Guide p3] for details." and
\* False for "No citation here." and for a bracketed token without a page.
C16_Grounded ==
    /\ pc = "critic" => (check_grounded(state["answer"]) <=> HasCitation(state["answer"]))
    /\ (pc = "END" /\ Get(state, "intent", None) = "knowledge") =>
          /\ state["log"][Len(state["log"])] =
                <<"Critic → END (grounded=", IF HasCitation(state["answer"]) THEN "True" ELSE "False", ")">>
          /\ state["answer"] = GroundedExample =>
                state["log"][Len(state["log"])][2] = "True"
          /\ state["answer"] \in {<<"N","o"," ","c","i","t","a","t","i","o","n"," ","h","e","r","e",".">>,
                                   <<"[","x","]">>, <<"[","x"," ","p","]">>} =>
                state["log"][Len(state["log"])][2] = "False"

\* C16 witness: the critic has marked the answer "[x p3]" True
C16_Witness ==
    /\ pc = "END"
    /\ state["answer"] = <<"[","x"," ","p","3","]">>
    /\ state["log"][Len(state["log"])] = <<"Critic → END (grounded=", "True", ")">>


\* how often node n has run
TimesRun(n) == Cardinality({i \in 1..Len(trace) : trace[i] = n})

\* the Critic's step changes nothing but the log and ends the run
CriticObservesOnly ==
    pc = "critic" =>
        /\ pc' = "END"
        /\ DOMAIN state' = DOMAIN state
        /\ \A k \in DOMAIN state : k # "log" => state'[k] = state[k]
        /\ state'["answer"] = state["answer"]
        /\ state'["contexts"] = state["contexts"]
        /\ state'["intent"] = state["intent"]
        /\ state'["query"] = state["query"]

\* compose and retriever run at most once, and exactly once in a knowledge
\* run that has reached the critic or END
SynthesizedOnce ==
    /\ TimesRun("compose") <= 1 /\ TimesRun("retriever") <= 1 /\ TimesRun("critic") <= 1
    /\ (pc \in {"critic", "END"} /\ Get(state, "intent", None) = "knowledge") =>
          TimesRun("compose") = 1 /\ TimesRun("retriever") = 1

\* C17: the Critic's step leaves answer, contexts, intent and query as they
\* are whatever the grounding result and is followed by END, never by Compose
\* or Retriever again; in every knowledge run compose_node, which calls the
\* Answer Synthesizer once, runs exactly once.
C17_CriticObservational == [][CriticObservesOnly]_vars /\ []SynthesizedOnce

\* C17 witness: a knowledge run has ended with an answer marked ungrounded
\* after one run of compose
C17_Witness ==
    /\ pc = "END"
    /\ trace = KnowledgeOrder
    /\ state["answer"] = <<"N","o"," ","c","i","t","a","t","i","o","n"," ","h","e","r","e",".">>
    /\ state["log"][Len(state["log"])] = <<"Critic → END (grounded=", "False", ")">>


\* the log of call r, read through the reference in its state
RunLog(r) == lists[runs[r].state["log"]]

\* the log of call r holds one entry for each node r has run, in order
OwnEntriesOnly(r) ==
    /\ Len(RunLog(r)) = Len(runs[r].trace)
    /\ \A i \in 1..Len(RunLog(r)) :
          i <= Len(runs[r].trace) /\ EntryNode(RunLog(r)[i]) = runs[r].trace[i]

\* both calls have returned, they were given the same arguments and the
\* retriever and the synthesizer answered the same in both
SameCallTwice ==
    /\ runs[1].pc = "END" /\ runs[2].pc = "END"
    /\ runs[1].args = runs[2].args
    /\ runs[1].oracle = runs[2].oracle

\* C18: when invoke_graph has been called twice, one call after the other,
\* with the same arguments and the retriever and the synthesizer answered the
\* same both times, the two final states have the same intent, logs of the
\* same length and the same proposed_action.type (or both none); the log of a
\* final state holds exactly the entries of that call's own nodes, none left
\* over from the call before.
C18_SameTwice ==
    /\ \A r \in RunIds : runs[r].pc = "END" => OwnEntriesOnly(r)
    /\ SameCallTwice =>
          /\ runs[1].state["intent"] = runs[2].state["intent"]
          /\ Len(RunLog(1)) = Len(RunLog(2))
          /\ RunLog(1) = RunLog(2)
          /\ Has(runs[1].state, "proposed_action") <=> Has(runs[2].state, "proposed_action")
          /\ Has(runs[1].state, "proposed_action") =>
                runs[1].state["proposed_action"]["type"] = runs[2].state["proposed_action"]["type"]

\* C18 witness: "what is the weather" has been run twice with the same
\* passages and the same answer, and each final log has its own four entries
C18_Witness ==
    /\ SameCallTwice
    /\ runs[1].args["query"] = <<"w","h","a","t"," ","i","s"," ","t","h","e"," ","w","e","a","t","h","e","r">>
    /\ runs[1].state["log"] # runs[2].state["log"]
    /\ Len(RunLog(1)) = Len(KnowledgeOrder)
    /\ Len(RunLog(2)) = Len(KnowledgeOrder)


\* the objects the callers have been handed for the h-th handle so far
Observed(h) ==
    {threads[t].got[i] : <<t, i>> \in {ti \in CallerIds \X (1..(MaxCalls * Len(HandleNames))) :
                                         /\ ti[2] <= Len(threads[ti[1]].got)
                                         /\ threads[ti[1]].got[ti[2]][1] = HandleNames[h]}}

\* C19: whatever way two threads' first calls of get_embedder or
\* get_collection interleave, each handle is constructed at most once and
\* every caller, first or later, is handed the same instance.
C19_OneConstruction ==
    \A h \in 1..Len(handles) :
        /\ handles[h].built <= 1
        /\ Cardinality(Observed(h)) <= 1

\* apart from two first callers that overlap, the getters behave: a call
\* that starts after the handle is stored constructs nothing and is handed
\* the stored object
LaterCallsReuse ==
    [][\A t \in CallerIds :
          (threads[t].pc = "test" /\ handles[threads[t].h].cache # None /\ threads'[t].pc # "test")
              => (threads'[t].pc = "return" /\ handles' = handles)]_vars

\* both threads have been through both getters twice
HandlesAllCalled == \A t \in CallerIds : threads[t].round = MaxCalls


\* the state of call r with its log read through the reference, before and
\* after a step
RunStateBefore(r) == Put(runs[r].state, "log", lists[runs[r].state["log"]])

RunStateAfter(r) == Put(runs'[r].state, "log", lists'[runs'[r].state["log"]])

\* what a node that computes on the state alone makes of the state st
PureNode(node, st) ==
    CASE node = "router" -> router_node(st)
      [] node = "critic" -> critic_node(st)
      [] node = "action" -> action_node(st)
      [] OTHER -> st

\* a step of call r leaves the other call's locals and list as they are, and
\* what the router, critic or action node of r returns is determined by r's
\* own state
OwnStepOnly ==
    \A r \in RunIds :
        runs'[r] # runs[r] =>
            /\ \A o \in RunIds \ {r} :
                  /\ runs'[o] = runs[o]
                  /\ runs[o].pc # "idle" =>
                        lists'[runs[o].state["log"]] = lists[runs[o].state["log"]]
            /\ runs[r].pc \in {"router", "critic", "action"} =>
                  RunStateAfter(r) = PureNode(runs[r].pc, RunStateBefore(r))
            /\ runs[r].pc # "idle" =>
                  /\ runs'[r].args = runs[r].args
                  /\ runs'[r].state["log"] = runs[r].state["log"]

\* the log of call r is about r: one entry per node r has run, the Router
\* entry names r's intent, the Action entry r's proposal, the Critic entry
\* the grounding of r's answer
OwnLogOnly(r) ==
    /\ OwnEntriesOnly(r)
    /\ RunLog(r)[1] = <<"Router → ", Title(route(runs[r].args["query"]))>>
    /\ runs[r].state["query"] = runs[r].args["query"]
    /\ Has(runs[r].state, "proposed_action") =>
          /\ RunLog(r)[Len(RunLog(r))] = ActionTraceLine(runs[r].state["proposed_action"]["type"])
          /\ runs[r].state["proposed_action"]["original_query"] = runs[r].args["query"]
    /\ Has(runs[r].state, "contexts") =>
          RunLog(r)[Len(RunLog(r))] =
              <<"Critic → END (grounded=", PyStr(HasCitation(runs[r].state["answer"])), ")">>

\* no two calls in progress or returned hold the same list object
NoSharedList ==
    \A r \in RunIds : \A o \in RunIds \ {r} :
        (runs[r].pc # "idle" /\ runs[o].pc # "idle") =>
            runs[r].state["log"] # runs[o].state["log"]

\* every final state has a log of its own
OwnFinalLogs == NoSharedList /\ \A r \in RunIds : runs[r].pc = "END" => OwnLogOnly(r)

\* C20: when two calls of invoke_graph are interleaved, a step of one call
\* changes neither the other call's state nor the other call's log list and
\* computes from its own state alone, the two calls never hold the same list
\* object, and the log in each final state holds exactly the entries of that
\* call's own nodes, about that call's own query.
C20_RunsIsolated == [][OwnStepOnly]_vars /\ []OwnFinalLogs

\* C20 witness: one call is at the critic with its three entries while the
\* other, started meanwhile, is at the action node with its one entry
C20_Witness ==
    /\ runs[1].pc = "critic"
    /\ runs[2].pc = "action"
    /\ runs[1].state["log"] < runs[2].state["log"]
    /\ Len(RunLog(1)) = Len(runs[1].trace)
    /\ RunLog(2) = <<<<"Router → ", "Action">>>>


\* the retriever has returned with zero passages and compose is due
ZeroHitsRetrieved ==
    /\ pc = "compose"
    /\ Has(state, "contexts")
    /\ state["contexts"] = <<>>

\* a run with zero passages has ended after all four nodes, with an answer
ZeroHitsEnded ==
    /\ pc = "END"
    /\ trace = KnowledgeOrder
    /\ state["contexts"] = <<>>
    /\ Has(state, "answer")
    /\ Len(state["log"]) = Len(KnowledgeOrder)

\* a retriever that returns always sets contexts to a sequence, and with zero
\* passages compose and critic run as with any, each followed by the next
\* node of the knowledge order, compose writing an answer
ZeroHitsContinue ==
    /\ (pc = "retriever" /\ pc' # "FAILED") =>
          /\ Has(state', "contexts")
          /\ Len(state'["contexts"]) >= 0
          /\ pc' = "compose"
    /\ (pc \in {"compose", "critic"} /\ Get(state, "contexts", None) = <<>>) =>
          /\ pc' = (IF pc = "compose" THEN "critic" ELSE "END")
          /\ state'["contexts"] = <<>>
          /\ Has(state', "answer")
          /\ trace' = Append(trace, pc)
          /\ Len(state'["log"]) = Len(state["log"]) + 1

\* C21: when the retrieval returns zero passages the Retriever sets contexts
\* to the empty sequence, Compose and Critic follow as in any knowledge run,
\* no step is skipped and no step fails, and the run reaches END with an
\* answer.
C21_EmptyRetrieval == [][ZeroHitsContinue]_vars /\ (ZeroHitsRetrieved ~> ZeroHitsEnded)

\* C21 witness: a run with zero passages has ended with the fallback answer
\* marked ungrounded
C21_Witness ==
    /\ ZeroHitsEnded
    /\ state["answer"] = LLMDisabled
    /\ state["log"][Len(state["log"])] = <<"Critic → END (grounded=", "False", ")">>

\* the text a finished call gave its caller last: the value returned, or the
\* last fragment yielded
LastText ==
    IF synth.variant = "plain" THEN synth.result ELSE synth.out[Len(synth.out)]

SynthFailed ==
    synth.pc = "done" /\ synth.configured /\ synth.backend.failing # Never

\* C22: neither variant of the Answer Synthesizer propagates an exception,
\* for any query and any contexts of the Retriever: without a backend the
\* fixed "[LLM disabled] ..." text is what the caller gets, and when the
\* backend fails, at the request or at any chunk of the stream, the caller
\* gets the fallback text that embeds the failure's reason.
C22_NeverRaises ==
    /\ synth.pc # "raised"
    /\ (synth.pc = "done" /\ ~synth.configured) =>
          /\ synth.variant = "plain" => synth.result = LLMDisabled
          /\ synth.variant = "stream" => synth.out = <<LLMDisabled>>
    /\ SynthFailed =>
          /\ LastText = ErrorMessage(FailureReason)
          /\ LastText = LLMError
          /\ str_contains(LastText, FailureReason)

\* C22 witness: a stream failed after fragments were yielded, and the error
\* text followed them
C22_Witness ==
    /\ SynthFailed
    /\ synth.variant = "stream"
    /\ synth.backend.failing = Len(synth.backend.chunks)
    /\ Len(synth.out) = MaxChunks
    /\ LastText = LLMError

\* the deltas with text among the first k chunks of the backend, in the
\* backend's order
TextDeltas(k) ==
    SelectSeq(SubSeq(synth.backend.chunks, 1, k), LAMBDA d : d # NoDelta /\ d # <<>>)

\* what the consumer of the streaming variant has received is what the
\* backend has produced so far, in its order, followed by the error text when
\* the stream failed; a finished stream that did not fail adds up to the full
\* answer; without a backend the one fallback text is all there is
StreamInOrder ==
    synth.variant = "stream" =>
        /\ ~synth.configured =>
              /\ synth.pc = "called" => synth.out = <<>>
              /\ synth.pc \in {"yielded", "done"} => synth.out = <<LLMDisabled>>
        /\ (synth.configured /\ synth.pc = "streaming") => synth.out = TextDeltas(synth.pos)
        /\ (synth.configured /\ synth.pc = "done" /\ synth.backend.failing = Never) =>
              /\ synth.out = TextDeltas(Len(synth.backend.chunks))
              /\ Concat(synth.out) = ChunkText(synth.backend.chunks, Len(synth.backend.chunks))
        /\ SynthFailed =>
              synth.out = Append(TextDeltas(synth.backend.failing), LLMError)
        /\ Len(synth.out) <= Len(synth.backend.chunks) + 1

\* a fragment once yielded stays where it is: each step yields nothing or one
\* more fragment after those before
FragmentsAppended ==
    \/ synth'.out = synth.out
    \/ /\ Len(synth'.out) = Len(synth.out) + 1
       /\ SubSeq(synth'.out, 1, Len(synth.out)) = synth.out

\* C23: the streaming synthesizer yields finitely many fragments, in the
\* order the backend produced them, and they concatenate to the full answer;
\* without a backend it yields exactly the one fallback text and then ends.
C23_StreamOrdered ==
    /\ []StreamInOrder
    /\ [][FragmentsAppended]_vars
    /\ <>(synth.pc = "done")

\* C23 witness: a stream of chunks, some without text, has ended and two
\* fragments were yielded that add up to the answer
C23_Witness ==
    /\ synth.variant = "stream"
    /\ synth.pc = "done"
    /\ synth.configured
    /\ synth.backend.failing = Never
    /\ Len(synth.backend.chunks) = MaxChunks
    /\ \E i \in 1..MaxChunks : ~Truthy(synth.backend.chunks[i])
    /\ Len(synth.out) = MaxChunks - 1
    /\ synth.out[1] # synth.out[Len(synth.out)]
    /\ Concat(synth.out) = ChunkText(synth.backend.chunks, MaxChunks)

\* a request reaches the ops API only in the script run that the click on
\* "Approve Action" starts, with the buttons on the page and no pipeline
\* running, and it is the one request for the proposal shown
PostedOnApproval ==
    ui'.posts # ui.posts =>
        /\ pc = "idle" /\ pc' = "idle"
        /\ ui.buttons
        /\ ui'.event = "approve"
        /\ ui'.events = ui.events + 1
        /\ Has(ui.last_result, "proposed_action")
        /\ ui'.posts =
              Append(ui.posts,
                     [endpoint |-> "/" \o ui.last_result["proposed_action"]["type"],
                      payload |-> Put(ui.last_result["proposed_action"],
                                      "operator", OperatorName)])

\* C24: nothing is posted to the action-execution endpoints before the human
\* approves: not by a run of the orchestrator, not when a query is
\* submitted, not on "Deny Action" or any other interaction, only on the
\* click on "Approve Action".
C24_ApprovalGate == [][PostedOnApproval]_vars

\* C24 witness: a pause proposal was approved and posted, once
C24_Witness ==
    /\ ui.event = "approve"
    /\ Len(ui.posts) = 1
    /\ ui.posts[1].endpoint = "/pause_item"
    /\ ui.posts[1].payload["operator"] = OperatorName
    /\ ui.posts[1].payload = Put(extract_action(ui.prompt), "operator", OperatorName)

\* C25: the Router and the Action Extractor agree: every query for which
\* extract_action gives a proposal of a type other than unknown, "update
\* opening hours ..." among them, is classified as action by the Router.
C25_RouterCoversExtractor ==
    (Has(state, "proposed_action") /\ state["proposed_action"]["type"] # "unknown") =>
        route(state["query"]) = "action"

\* the hours example of spec section 8 is given an update_hours proposal by
\* the extractor and the intent knowledge by the router
RouterMissesHours ==
    /\ Has(state, "proposed_action")
    /\ state["query"] = HoursExample
    /\ state["proposed_action"]["type"] = "update_hours"
    /\ route(state["query"]) = "knowledge"

\* the page holds the result of a knowledge query and its decision log
KnowledgeShown ==
    /\ pc = "idle"
    /\ Get(ui.last_result, "intent", None) = "knowledge"
    /\ ui.decision_log # <<>>

\* C26: in the UI, for every knowledge query the answer stored in the chat
\* history and in last_result is the text the Critic evaluated, so that the
\* "grounded=" of the decision log describes the answer shown, also when the
\* synthesizer does not give the same text twice.
C26_ShownIsEvaluated ==
    KnowledgeShown =>
        /\ ui.last_result["answer"] = ui.evaluated
        /\ ui.history[Len(ui.history)].content = ui.evaluated
        /\ ui.decision_log[Len(ui.decision_log)] =
              <<"Critic → END (grounded=", PyStr(check_grounded(ui.last_result["answer"])), ")">>

\* the decision log says grounded=True for an answer with a citation, and
\* the answer shown and stored is another text, without one
UngroundedShownAsGrounded ==
    /\ KnowledgeShown
    /\ ui.decision_log[Len(ui.decision_log)] = <<"Critic → END (grounded=", "True", ")">>
    /\ check_grounded(ui.evaluated)
    /\ ui.last_result["answer"] # ui.evaluated
    /\ ui.history[Len(ui.history)].content = ui.last_result["answer"]
    /\ ~check_grounded(ui.last_result["answer"])
    /\ ui.last_result["answer"] \in BackendAnswers

\* the buttons of the page, when it has them, are for the proposal of the
\* query submitted last, which the Router took for an action and for which
\* the extractor gave a type other than unknown
ButtonsForLatest ==
    ui.buttons =>
        /\ route(ui.prompt) = "action"
        /\ Get(ui.last_result, "query", None) = ui.prompt
        /\ Get(ui.last_result, "proposed_action", EmptyDict) = extract_action(ui.prompt)
        /\ extract_action(ui.prompt)["type"] # "unknown"

\* what is posted is the proposal of the query submitted last
PostsLatest ==
    ui'.posts # ui.posts =>
        /\ route(ui.prompt) = "action"
        /\ ui'.posts[Len(ui'.posts)].payload =
              Put(extract_action(ui.prompt), "operator", OperatorName)
        /\ ui'.posts[Len(ui'.posts)].payload["type"] # "unknown"

\* C27: in the UI a proposal can be executed only if it is the
\* proposed_action of the most recent query's result and its type is not
\* unknown: an unknown proposal never gets an Approve button, and after a
\* later knowledge query no earlier proposal remains approvable.
C27_LatestProposalOnly == []ButtonsForLatest /\ [][PostsLatest]_vars

\* the query submitted last was a knowledge query, and the page offers the
\* buttons for the proposal of the query before it
StaleProposalOffered ==
    /\ ui.buttons
    /\ pc = "idle"
    /\ route(ui.prompt) = "knowledge"
    /\ ui.last_result["query"] # ui.prompt
    /\ ui.last_result["proposed_action"]["type"] = "pause_item"

\* an unknown proposal is on the page without buttons
UnknownNotOffered ==
    (pc = "idle" /\ Get(Get(ui.last_result, "proposed_action", EmptyDict), "type", None) = "unknown")
        => ~ui.buttons

\* the entries of the audit file that request r wrote
EntriesOf(r) == {i \in 1..Len(ops.audit) : ops.audit[i].request = r}

\* a request for pause_item or unpause_item without an item, or with an
\* empty one
LacksItem(r) ==
    /\ ops.reqs[r].pc # "none"
    /\ ops.reqs[r].endpoint \in {"/pause_item", "/unpause_item"}
    /\ ops.reqs[r].payload.item \in {None, ""}

\* a request without item is answered 400 as soon as its handler has
\* started and never writes; every other request that is done was answered
\* 200 and wrote exactly one audit entry, its own
AuditedOnce ==
    \A r \in RequestIds :
        /\ LacksItem(r) =>
              /\ ops.reqs[r].pc = "done"
              /\ ops.reqs[r].status = 400
              /\ EntriesOf(r) = {}
        /\ (ops.reqs[r].pc = "done" /\ ~LacksItem(r)) =>
              /\ ops.reqs[r].status = 200
              /\ Cardinality(EntriesOf(r)) = 1
              /\ \A i \in EntriesOf(r) :
                    /\ "/" \o ops.audit[i].action = ops.reqs[r].endpoint
                    /\ ops.audit[i].payload = ops.reqs[r].payload
        /\ ops.reqs[r].pc \in {"load", "save", "audit"} => EntriesOf(r) = {}

\* the audit file only grows, by one entry at the end at a time, and the
\* step that refuses a request changes neither file
AuditGrows ==
    /\ \/ ops'.audit = ops.audit
       \/ /\ Len(ops'.audit) = Len(ops.audit) + 1
          /\ SubSeq(ops'.audit, 1, Len(ops.audit)) = ops.audit
    /\ \A r \in RequestIds :
          (ops.reqs[r].pc = "none" /\ ops'.reqs[r].status = 400) =>
              ops'.file = ops.file /\ ops'.audit = ops.audit

\* C28: in the ops stub a pause_item or unpause_item request with a missing
\* or empty item is answered 400 and changes nothing, neither the state nor
\* the audit log; every accepted pause_item, unpause_item or update_hours
\* request appends exactly one audit entry; the audit log only grows.
C28_AuditedOrRefused == []AuditedOnce /\ [][AuditGrows]_vars

\* C28 witness: of two requests one was refused for its empty item and the
\* other, an update of the hours, was served and audited
C28_Witness ==
    /\ \E r \in RequestIds :
          /\ ops.reqs[r].pc = "done"
          /\ ops.reqs[r].status = 400
          /\ ops.reqs[r].payload.item = ""
    /\ \E r \in RequestIds :
          /\ ops.reqs[r].pc = "done"
          /\ ops.reqs[r].status = 200
          /\ ops.reqs[r].endpoint = "/update_hours"
    /\ Len(ops.audit) = 1
    /\ ops.file.hours_note = "set hours 9-5"

\* every request that has arrived is done
OpsQuiet == \A r \in RequestIds : ops.reqs[r].pc \in {"none", "done"}

\* the requests that have arrived are pause and unpause requests
ItemRequestsOnly ==
    \A r \in RequestIds :
        ops.reqs[r].pc # "none" => ops.reqs[r].endpoint \in {"/pause_item", "/unpause_item"}

\* the audit entries about item, in the order of the file
EntriesAbout(item) ==
    SelectSeq(ops.audit,
              LAMBDA e : e.action \in {"pause_item", "unpause_item"} /\ e.payload.item = item)

\* the status the audit file gives item: that of its latest entry
AuditedStatus(item) ==
    IF EntriesAbout(item)[Len(EntriesAbout(item))].action = "pause_item"
    THEN "paused" ELSE "active"

\* C29: in the ops stub, once any set of accepted pause and unpause requests
\* has completed, also when their handlers ran interleaved, the stored state
\* agrees with the audit log: each audited item has the status of its latest
\* audit entry, and no completed update is lost.
C29_StateAgreesWithAudit ==
    (OpsQuiet /\ ItemRequestsOnly) =>
        \A item \in {"Garlic Bread", "Cheesecake"} :
            IF EntriesAbout(item) = <<>>
            THEN ~Has(ops.file.items, item)
            ELSE /\ Has(ops.file.items, item)
                 /\ ops.file.items[item] = AuditedStatus(item)

\* two pause requests for different items are done and audited, and the
\* state file holds only one of the items
UpdateLost ==
    /\ OpsQuiet
    /\ Len(ops.audit) = 2
    /\ \A r \in RequestIds : ops.reqs[r].status = 200 /\ ops.reqs[r].endpoint = "/pause_item"
    /\ Len(EntriesAbout("Garlic Bread")) = 1
    /\ Len(EntriesAbout("Cheesecake")) = 1
    /\ ~Has(ops.file.items, "Garlic Bread")
    /\ ops.file.items["Cheesecake"] = "paused"

\* two requests for one item are done, and the state file holds the status
\* of the earlier audit entry
StatusOutOfOrder ==
    /\ OpsQuiet
    /\ Len(EntriesAbout("Cheesecake")) = 2
    /\ ops.file.items["Cheesecake"] # AuditedStatus("Cheesecake")

\* a turn of the loop that does not leave it moves start forward
StartAdvances ==
    (split.pc = "while" /\ split'.pc = "while") => split'.start > split.start

\* C30: split_text terminates for every text and every chunk size of at
\* least 1 and overlap of at least 0 that the command line accepts, an
\* overlap of the chunk size or more included: start advances on every
\* iteration.
C30_SplitTerminates == [][StartAdvances]_vars /\ <>(split.pc = "returned")

\* the loop has taken as many turns as are followed on a text it cannot
\* leave: the overlap is no smaller than the chunk size and start is where
\* it was a turn before
SplitStuck ==
    /\ split.pc = "while"
    /\ split.overlap >= split.chunk_size
    /\ split.n > split.chunk_size
    /\ Len(split.chunks) = MaxIterations
    /\ split.chunks[MaxIterations] = split.chunks[MaxIterations - 1]

\* with an overlap smaller than the chunk size the loop is left after at
\* most n turns
SmallOverlapReturns ==
    split.overlap < split.chunk_size => Len(split.chunks) <= split.n

\* the number of characters of the chunk text[start:end] kept as c
ChunkLen(c) == c[2] - c[1]

\* split_text has returned for an overlap smaller than the chunk size
SplitReturned == split.pc = "returned" /\ split.overlap < split.chunk_size

\* C31: for 0 <= overlap < chunk_size the chunks split_text returns cover the
\* text with overlap: the empty text gives no chunks; otherwise the first
\* chunk starts at position 0, the last ends at the end of the text, every
\* chunk has between 1 and chunk_size characters, each chunk after the first
\* starts exactly overlap characters before the end of the one before it,
\* and every character of the text is in some chunk.
C31_ChunksCover ==
    SplitReturned =>
        IF split.n = 0 THEN split.chunks = <<>>
        ELSE /\ split.chunks # <<>>
             /\ split.chunks[1][1] = 0
             /\ split.chunks[Len(split.chunks)][2] = split.n
             /\ \A i \in 1..Len(split.chunks) :
                   /\ split.chunks[i][1] < split.chunks[i][2]
                   /\ ChunkLen(split.chunks[i]) <= split.chunk_size
             /\ \A i \in 2..Len(split.chunks) :
                   split.chunks[i][1] + split.overlap = split.chunks[i - 1][2]
             /\ \A p \in 0..(split.n - 1) :
                   \E i \in 1..Len(split.chunks) :
                       split.chunks[i][1] <= p /\ p < split.chunks[i][2]

\* C31 witness: a text was split with an overlap into several chunks, the
\* last of them shorter than the chunk size
C31_Witness ==
    /\ SplitReturned
    /\ split.overlap > 0
    /\ Len(split.chunks) >= MaxChunkSize
    /\ ChunkLen(split.chunks[Len(split.chunks)]) < split.chunk_size
    /\ ChunkLen(split.chunks[1]) = split.chunk_size

=============================================================================
